---- MODULE Spec2Model ----
(***************************************************************************)
(* A state-machine model of the ZFS metaslab allocator                     *)
(* (usr/src/uts/common/fs/zfs/metaslab.c).                                 *)
(*                                                                         *)
(* Addresses are in abstract units; a sector is 2^vdev_ashift units.  A    *)
(* range tree is modelled by the set of units it covers: two adjacent      *)
(* segments of such a set are one segment, which is the coalescing the     *)
(* range tree performs, and its segments are the maximal runs of the set.  *)
(*                                                                         *)
(* Every step of a thread is one critical section of the code: it runs     *)
(* from a point where the thread holds no metaslab lock (or re-acquires    *)
(* one it dropped) to the next point where it drops it.                    *)
(***************************************************************************)
EXTENDS Integers, Sequences, FiniteSets, TLC

(***************************************************************************)
(* Bounds of the model.                                                    *)
(***************************************************************************)
\* Number of calls (metaslab_alloc, metaslab_free, metaslab_claim) issued.
MaxOps == 3
\* Number of transaction groups synced after the first one.
MaxTxgs == 3

(***************************************************************************)
(* Program constants.  The txg ring sizes come from sys/txg.h; the model   *)
(* keeps their values.  Sizes that are 2^9 .. 2^63 in the code are scaled  *)
(* down so that a metaslab is a handful of sectors.                        *)
(***************************************************************************)
TXG_SIZE == 4
TXG_MASK == TXG_SIZE - 1
TXG_DEFER_SIZE == 2
TXG_CONCURRENT_STATES == 3
TXG_INITIAL == 4
TXG_CLEAN(txg) == txg - 1

\* 1ULL << 63 and 1ULL << 62 in the code: the two top bits of the weight word.
METASLAB_WEIGHT_PRIMARY == 2^20
METASLAB_WEIGHT_SECONDARY == 2^19
METASLAB_ACTIVE_MASK == METASLAB_WEIGHT_PRIMARY + METASLAB_WEIGHT_SECONDARY

metaslab_unload_delay == TXG_SIZE * 2
zfs_condense_pct == 200
zfs_mg_noalloc_threshold == 0
metaslab_df_free_pct == 4
metaslab_ndf_clump_shift == 4
\* SPA_MAXBLOCKSIZE (128K) scaled to the model's metaslab: three sectors.
metaslab_df_alloc_threshold == 6
\* DMU_MAX_ACCESS scaled likewise.
metaslab_min_alloc_size == 4
\* SPA_MINBLOCKSIZE (1 << 9): one sector of the model's devices.
SPA_MINBLOCKSIZE == 2
\* SPA_GANGBLOCKSIZE == SPA_MINBLOCKSIZE.
SPA_GANGBLOCKSIZE == SPA_MINBLOCKSIZE
\* SM_RUN_MAX (1 << 15 sectors) scaled: the longest run one entry encodes.
SM_RUN_MAX == 2
metaslab_aliquot == 8

\* errno values, and -1ULL, the "no offset" result of the allocators.
ENOENT == 2
EIO == 5
ENXIO == 6
ENOSPC == 28
NoOffset == -1

(***************************************************************************)
(* Arithmetic helpers (sys/sysmacros.h).                                   *)
(***************************************************************************)
MIN(a, b) == IF a < b THEN a ELSE b
MAX(a, b) == IF a > b THEN a ELSE b
P2PHASE(x, align) == x % align
P2ROUNDUP(x, align) == ((x + align - 1) \div align) * align

\* highbit64(x): 1-based index of the highest set bit, 0 for x = 0.
RECURSIVE highbit64(_)
highbit64(x) == IF x = 0 THEN 0 ELSE 1 + highbit64(x \div 2)

\* size & -size: the largest power of two dividing size.
RECURSIVE LowBit(_)
LowBit(x) == IF x = 0 THEN 0 ELSE IF x % 2 = 1 THEN 1 ELSE 2 * LowBit(x \div 2)

\* The weight word: its active bits and the rest.
WeightBits(w) == (w \div METASLAB_WEIGHT_SECONDARY) * METASLAB_WEIGHT_SECONDARY
WeightValue(w) == w % METASLAB_WEIGHT_SECONDARY
HasPrimary(w) == w \div METASLAB_WEIGHT_PRIMARY = 1
HasSecondary(w) == (w \div METASLAB_WEIGHT_SECONDARY) % 2 = 1
\* w | bit, for one of the two active bits.
WeightOr(w, bit) ==
    IF bit = METASLAB_WEIGHT_PRIMARY
    THEN (IF HasPrimary(w) THEN w ELSE w + bit)
    ELSE (IF HasSecondary(w) THEN w ELSE w + bit)

(***************************************************************************)
(* Range trees (range_tree.c is not part of the excerpt; the operations    *)
(* follow section 4.1 of the specification).                               *)
(***************************************************************************)
Range(off, size) == off .. (off + size - 1)

range_tree_space(rt) == Cardinality(rt)

range_tree_contains(rt, off, size) == size > 0 /\ Range(off, size) \subseteq rt

\* The segments of a tree: its maximal runs, as [rs_start, rs_end).
Segs(rt) ==
    { [rs_start |-> a,
       rs_end |-> CHOOSE e \in (a + 1) .. (a + Cardinality(rt)) :
                     /\ e \notin rt
                     /\ (a .. (e - 1)) \subseteq rt]
      : a \in { x \in rt : (x - 1) \notin rt } }

SegLen(rs) == rs.rs_end - rs.rs_start

avl_numnodes(rt) == Cardinality(Segs(rt))

\* range_tree_seg_compare: two segments compare equal when they overlap.
SegOverlaps(rs, lo, hi) == rs.rs_start < hi /\ rs.rs_end > lo

\* metaslab_rangesize_compare, as "r1 sorts before r2".
SizeLess(r1, r2) ==
    \/ SegLen(r1) < SegLen(r2)
    \/ SegLen(r1) = SegLen(r2) /\ r1.rs_start < r2.rs_start

\* avl_last of the size-ordered tree.
SizeLast(segs) == CHOOSE r \in segs : \A q \in segs : q = r \/ SizeLess(q, r)

\* metaslab_rt_ops: the callbacks by which the range tree ms_tree keeps
\* ms_size_tree, the same segments ordered by size, up to date.
metaslab_rt_add(sz, rs) == sz \cup {rs}
metaslab_rt_remove(sz, rs) == sz \ {rs}
metaslab_rt_vacate(sz) == {}

\* range_tree_add(ms_tree, off, size) as the size tree sz sees it: the
\* neighbours the new range merges with are removed, the merged segment is
\* added.  rt is the offset tree before the call.
SizeTreeAdd(rt, sz, off, size) ==
    LET before == { r \in Segs(rt) : r.rs_end = off }
        after == { r \in Segs(rt) : r.rs_start = off + size }
        s1 == IF before = {} THEN sz
              ELSE metaslab_rt_remove(sz, CHOOSE r \in before : TRUE)
        s2 == IF after = {} THEN s1
              ELSE metaslab_rt_remove(s1, CHOOSE r \in after : TRUE)
        lo == IF before = {} THEN off ELSE (CHOOSE r \in before : TRUE).rs_start
        hi == IF after = {} THEN off + size ELSE (CHOOSE r \in after : TRUE).rs_end
    IN  metaslab_rt_add(s2, [rs_start |-> lo, rs_end |-> hi])

\* range_tree_remove(ms_tree, off, size): the segment that holds the range
\* is removed, what is left of it on either side is added.
SizeTreeRemove(rt, sz, off, size) ==
    LET rs == CHOOSE r \in Segs(rt) : r.rs_start <= off /\ off + size <= r.rs_end
        s1 == metaslab_rt_remove(sz, rs)
        s2 == IF rs.rs_start < off
              THEN metaslab_rt_add(s1, [rs_start |-> rs.rs_start, rs_end |-> off])
              ELSE s1
    IN  IF off + size < rs.rs_end
        THEN metaslab_rt_add(s2, [rs_start |-> off + size, rs_end |-> rs.rs_end])
        ELSE s2

\* range_tree_add of every segment of the tree S (range_tree_vacate with
\* range_tree_add as its callback, space_map_load): each call removes the
\* neighbours it merges with, the segments of rt that touch S, and adds the
\* merged segment; what is added and not removed again by a later call are
\* the segments of the result that hold a range of S.
SizeTreeAddAll(rt, sz, S) ==
    LET merged == { r \in Segs(rt) : r.rs_end \in S \/ (r.rs_start - 1) \in S }
        added == { r \in Segs(rt \cup S) : \E x \in S : r.rs_start <= x /\ x < r.rs_end }
    IN  (sz \ merged) \cup added

\* range_tree_remove of every segment of S (range_tree_walk with
\* range_tree_remove as its callback): each call removes the segment that
\* holds the range and adds what is left of it on either side.
SizeTreeRemoveAll(rt, sz, S) ==
    LET cut == { r \in Segs(rt) : \E x \in S : r.rs_start <= x /\ x < r.rs_end }
        left == { r \in Segs(rt \ S) :
                    \E c \in cut : c.rs_start <= r.rs_start /\ r.rs_end <= c.rs_end }
    IN  (sz \ cut) \cup left

\* The size tree after metaslab_load: space_map_load has added the segments
\* of tree to the empty ms_tree, and the deferred frees are removed again.
LoadSizeTree(tree, defer) ==
    CHOOSE sz \in { SizeTreeRemoveAll(t, SizeTreeAddAll({}, {}, t), d) :
                        t \in {tree}, d \in {defer} } : TRUE

\* metaslab_block_maxsize: avl_last of the size-ordered tree.
metaslab_block_maxsize(msp) ==
    IF msp.ms_size_tree = {} THEN 0 ELSE SegLen(SizeLast(msp.ms_size_tree))

(***************************************************************************)
(* Block allocators.  Each takes the metaslab and the size and yields the  *)
(* set of results [start, lbas] the call can produce: start is the offset  *)
(* or NoOffset, lbas the cursor array afterwards.  The set has more than   *)
(* one element only where avl_find() may land on any one of several        *)
(* segments that overlap the search key, which depends on the shape of     *)
(* the AVL tree.                                                           *)
(***************************************************************************)
\* MAX_LBAS (64 in metaslab_impl.h), scaled.
MAX_LBAS == 6
NoLbas == [i \in 0 .. (MAX_LBAS - 1) |-> 0]

\* "No segment": what avl_find, avl_nearest and AVL_NEXT return at the end.
NoSeg == [rs_start |-> NoOffset, rs_end |-> NoOffset]

FitsAt(rs, size, align) == P2ROUNDUP(rs.rs_start, align) + size <= rs.rs_end

\* The first segment, walking the offset-ordered tree from offset "from",
\* that can hold size bytes at the alignment; NoSeg if there is none.
OffsetScan(segs, from, size, align) ==
    LET ok == { r \in segs : r.rs_start >= from /\ FitsAt(r, size, align) }
    IN  IF ok = {} THEN NoSeg
        ELSE CHOOSE r \in ok : \A q \in ok : r.rs_start <= q.rs_start

\* The same walk over the size-ordered tree, from the key (len, start).
SizeScan(segs, len, start, size, align) ==
    LET key == [rs_start |-> start, rs_end |-> start + len]
        ok == { r \in segs : (r = key \/ SizeLess(key, r)) /\ FitsAt(r, size, align) }
    IN  IF ok = {} THEN NoSeg
        ELSE CHOOSE r \in ok : \A q \in ok : q = r \/ SizeLess(r, q)

\* metaslab_block_picker over the offset-ordered tree: results [off, cursor].
RECURSIVE metaslab_block_picker(_, _, _, _)
metaslab_block_picker(segs, cursor, size, align) ==
    LET over == { r \in segs : SegOverlaps(r, cursor, cursor + size) }
        \* avl_find's hit, or else avl_nearest(AVL_AFTER)
        froms == IF over # {} THEN { r.rs_start : r \in over } ELSE { cursor + size }
        Res(from) ==
            LET rs == OffsetScan(segs, from, size, align)
            IN  IF rs # NoSeg
                THEN { [off |-> P2ROUNDUP(rs.rs_start, align),
                        cursor |-> P2ROUNDUP(rs.rs_start, align) + size] }
                ELSE IF cursor = 0
                THEN { [off |-> NoOffset, cursor |-> 0] }
                ELSE metaslab_block_picker(segs, 0, size, align)
    IN  UNION { Res(f) : f \in froms }

\* metaslab_block_picker over the size-ordered tree.
RECURSIVE metaslab_block_picker_size(_, _, _, _)
metaslab_block_picker_size(segs, cursor, size, align) ==
    LET rs == SizeScan(segs, size, cursor, size, align)
    IN  IF rs # NoSeg
        THEN { [off |-> P2ROUNDUP(rs.rs_start, align),
                cursor |-> P2ROUNDUP(rs.rs_start, align) + size] }
        ELSE IF cursor = 0
        THEN { [off |-> NoOffset, cursor |-> 0] }
        ELSE metaslab_block_picker_size(segs, 0, size, align)

\* A first fit that takes the first segment long enough, at any alignment.
metaslab_ff_alloc_unaligned(msp, size) ==
    LET align == LowBit(size)
        idx == highbit64(align) - 1
    IN  { [start |-> r.off, lbas |-> [msp.ms_lbas EXCEPT ![idx] = r.cursor]]
          : r \in metaslab_block_picker(Segs(msp.ms_tree), msp.ms_lbas[idx],
                                        size, 1) }

metaslab_ff_alloc(msp, size) ==
    LET align == LowBit(size)
        idx == highbit64(align) - 1
    IN  { [start |-> r.off, lbas |-> [msp.ms_lbas EXCEPT ![idx] = r.cursor]]
          : r \in metaslab_block_picker(Segs(msp.ms_tree), msp.ms_lbas[idx],
                                        size, align) }

metaslab_ff_fragmented(msp) == TRUE

FreePct(msp) == (range_tree_space(msp.ms_tree) * 100) \div msp.ms_size

metaslab_df_fragmented(msp) ==
    ~(/\ metaslab_block_maxsize(msp) >= metaslab_df_alloc_threshold
      /\ FreePct(msp) >= metaslab_df_free_pct)

\* A dynamic fit that never switches to the size-ordered tree.
metaslab_df_alloc_firstfit(msp, size) ==
    LET align == LowBit(size)
        idx == highbit64(align) - 1
        max_size == metaslab_block_maxsize(msp)
        picks == metaslab_block_picker(Segs(msp.ms_tree), msp.ms_lbas[idx], size, 1)
    IN  IF max_size < size
        THEN { [start |-> NoOffset, lbas |-> msp.ms_lbas] }
        ELSE { [start |-> r.off, lbas |-> [msp.ms_lbas EXCEPT ![idx] = r.cursor]]
               : r \in picks }

metaslab_df_alloc(msp, size) ==
    LET align == LowBit(size)
        idx == highbit64(align) - 1
        max_size == metaslab_block_maxsize(msp)
        bestfit == \/ max_size < metaslab_df_alloc_threshold
                   \/ FreePct(msp) < metaslab_df_free_pct
        picks == IF bestfit
                 THEN metaslab_block_picker_size(msp.ms_size_tree, 0, size, 1)
                 ELSE metaslab_block_picker(Segs(msp.ms_tree), msp.ms_lbas[idx],
                                            size, 1)
    IN  IF max_size < size
        THEN { [start |-> NoOffset, lbas |-> msp.ms_lbas] }
        ELSE { [start |-> r.off, lbas |-> [msp.ms_lbas EXCEPT ![idx] = r.cursor]]
               : r \in picks }

\* A cursor fit that advances its cursor one byte too far.
metaslab_cf_alloc_skew(msp, size) ==
    LET cursor == msp.ms_lbas[0]
        cursor_end == msp.ms_lbas[1]
        segs == msp.ms_size_tree
    IN  IF cursor + size > cursor_end
        THEN IF segs = {} \/ SegLen(SizeLast(segs)) < size
             THEN { [start |-> NoOffset, lbas |-> msp.ms_lbas] }
             ELSE LET rs == SizeLast(segs)
                  IN  { [start |-> rs.rs_start,
                         lbas |-> [msp.ms_lbas EXCEPT ![0] = rs.rs_start + size + 1,
                                                      ![1] = rs.rs_end]] }
        ELSE { [start |-> cursor,
                lbas |-> [msp.ms_lbas EXCEPT ![0] = cursor + size + 1]] }

metaslab_cf_alloc(msp, size) ==
    LET cursor == msp.ms_lbas[0]
        cursor_end == msp.ms_lbas[1]
        segs == msp.ms_size_tree
    IN  IF cursor + size > cursor_end
        THEN IF segs = {} \/ SegLen(SizeLast(segs)) < size
             THEN { [start |-> NoOffset, lbas |-> msp.ms_lbas] }
             ELSE LET rs == SizeLast(segs)
                  IN  { [start |-> rs.rs_start,
                         lbas |-> [msp.ms_lbas EXCEPT ![0] = rs.rs_start + size,
                                                      ![1] = rs.rs_end]] }
        ELSE { [start |-> cursor,
                lbas |-> [msp.ms_lbas EXCEPT ![0] = cursor + size]] }

metaslab_cf_fragmented(msp) ==
    metaslab_block_maxsize(msp) < metaslab_min_alloc_size

metaslab_ndf_alloc(msp, size) ==
    LET segs == Segs(msp.ms_tree)
        hbit == highbit64(size)
        cursor == msp.ms_lbas[hbit - 1]
        max_size == metaslab_block_maxsize(msp)
        over == { r \in segs : SegOverlaps(r, cursor, cursor + size) }
        \* the second search, in the size-ordered tree
        bysize == SizeScan(msp.ms_size_tree, MIN(max_size, 2^(hbit + metaslab_ndf_clump_shift)),
                           0, 0, 1)
        Use(rs) ==
            IF SegLen(rs) >= size
            THEN [start |-> rs.rs_start,
                  lbas |-> [msp.ms_lbas EXCEPT ![hbit - 1] = rs.rs_start + size]]
            ELSE [start |-> NoOffset, lbas |-> msp.ms_lbas]
        firsts == IF over = {} THEN { NoSeg } ELSE over
    IN  IF max_size < size
        THEN { [start |-> NoOffset, lbas |-> msp.ms_lbas] }
        ELSE { Use(IF rs = NoSeg \/ SegLen(rs) < size THEN bysize ELSE rs)
               : rs \in firsts }

metaslab_ndf_fragmented(msp) ==
    metaslab_block_maxsize(msp) <=
        metaslab_min_alloc_size * 2^metaslab_ndf_clump_shift

\* msp->ms_ops->msop_alloc and msop_fragmented: the class's strategy.
msop_alloc(msp, size) ==
    CASE msp.ms_ops = "ff" -> metaslab_ff_alloc(msp, size)
      [] msp.ms_ops = "df" -> metaslab_df_alloc(msp, size)
      [] msp.ms_ops = "cf" -> metaslab_cf_alloc(msp, size)
      [] msp.ms_ops = "ndf" -> metaslab_ndf_alloc(msp, size)

msop_fragmented(msp) ==
    CASE msp.ms_ops = "ff" -> metaslab_ff_fragmented(msp)
      [] msp.ms_ops = "df" -> metaslab_df_fragmented(msp)
      [] msp.ms_ops = "cf" -> metaslab_cf_fragmented(msp)
      [] msp.ms_ops = "ndf" -> metaslab_ndf_fragmented(msp)

(***************************************************************************)
(* The program state.                                                      *)
(***************************************************************************)
VARIABLES
    ms,       \* metaslab_t, by <<vdev id, ms_id>>
    mg,       \* metaslab_group_t, by vdev id
    mc,       \* metaslab_class_t (the pool's normal class)
    vd,       \* vdev_t, by vdev id: geometry, vdev_stat, vdev_ms_list
    spa,      \* syncing txg, sync pass and the phase of spa_sync
    at,       \* threads in metaslab_alloc
    ct,       \* the thread in metaslab_claim
    syn,      \* the syncing thread's position in metaslab_sync
    panic,    \* the VERIFY or range-tree panic that halted the system, or ""
    fired,    \* the ASSERTs (compiled out of production kernels) that failed
    blocks,   \* block pointers the callers hold: allocated or claimed, not freed
    lost,     \* DVAs claimed by a metaslab_claim call that then failed
    hist,     \* observations of completed calls, for the properties
    budget,   \* calls the environment may still start
    pt,       \* the metaslab_preload task of the group's taskq
    lk,       \* the mutexes a thread holds, innermost last, and its position
    lw,       \* the threads in metaslab_load_wait and metaslab_load
    nfs       \* the NFS auth cache: entries, refresh queue, dead list, threads

vars == <<ms, mg, mc, vd, spa, at, ct, syn, panic, fired, blocks, lost, hist, budget,
          pt, lk, lw, nfs>>

\* The shared state handed through the operators that model the code.
Cur == [ms |-> ms, mg |-> mg, mc |-> mc, vd |-> vd, panic |-> panic, fired |-> fired,
        spa_freeze_txg |-> spa.spa_freeze_txg]

\* A VERIFY, or a panic inside range_tree.c or space_map.c: the system halts.
Fail(st, what) == IF st.panic = "" THEN [st EXCEPT !.panic = what] ELSE st
\* An ASSERT: recorded; a production kernel goes on.
Check(st, cond, what) == IF cond THEN st ELSE [st EXCEPT !.fired = @ \cup {what}]
Halted(st) == st.panic # ""

Slot(txg) == txg % TXG_SIZE
DSlot(txg) == txg % TXG_DEFER_SIZE

(***************************************************************************)
(* Space maps (space_map.c is not part of the excerpt; section 4.2).  The  *)
(* on-disk log is a sequence of entries; sm_length and sm_alloc are the    *)
(* values cached by space_map_update(), and space_map_load() reads the     *)
(* first sm_length entries.                                                *)
(***************************************************************************)
NoSm == [open |-> FALSE, log |-> <<>>, sm_length |-> 0, sm_alloc |-> 0,
         smp_alloc |-> 0]

space_map_open == [open |-> TRUE, log |-> <<>>, sm_length |-> 0, sm_alloc |-> 0,
                   smp_alloc |-> 0]

space_map_allocated(sm) == IF sm.open THEN sm.sm_alloc ELSE 0
\* space_map_length is in bytes, eight per entry.
space_map_length(sm) == IF sm.open THEN 8 * sm.sm_length ELSE 0
space_map_alloc_delta(sm) == IF sm.open THEN sm.smp_alloc - sm.sm_alloc ELSE 0
space_map_update(sm) ==
    IF sm.open THEN [sm EXCEPT !.sm_alloc = sm.smp_alloc, !.sm_length = Len(sm.log)]
    ELSE sm
space_map_truncate(sm) == [sm EXCEPT !.log = <<>>, !.smp_alloc = 0]

\* The entries one segment is written as: runs of at most SM_RUN_MAX sectors.
RECURSIVE SegEntries(_, _, _, _)
SegEntries(type, start, end, ashift) ==
    IF start >= end THEN <<>>
    ELSE LET run == MIN(end - start, SM_RUN_MAX * 2^ashift)
         IN  <<[type |-> type, start |-> start, len |-> run]>>
             \o SegEntries(type, start + run, end, ashift)

\* The entries of a tree, segment by segment in offset order.
RECURSIVE TreeEntries(_, _, _)
TreeEntries(type, rt, ashift) ==
    IF rt = {} THEN <<>>
    ELSE LET a == CHOOSE x \in rt : \A y \in rt : x <= y
             rs == CHOOSE r \in Segs(rt) : r.rs_start = a
         IN  SegEntries(type, rs.rs_start, rs.rs_end, ashift)
             \o TreeEntries(type, rt \ (rs.rs_start .. (rs.rs_end - 1)), ashift)

space_map_write(sm, rt, type, ashift) ==
    [sm EXCEPT !.log = @ \o TreeEntries(type, rt, ashift),
               !.smp_alloc = IF type = "A" THEN @ + range_tree_space(rt)
                             ELSE @ - range_tree_space(rt)]

\* Replaying entries log[i .. n] into the tree rt, loading with SM_FREE: an
\* allocation is removed, a free is added.  The result is [rt, ok]; ok is
\* FALSE when an entry does not apply (range_tree_add or _remove panics).
RECURSIVE Replay(_, _, _, _)
Replay(log, i, n, acc) ==
    IF i > n \/ ~acc.ok THEN acc
    ELSE LET e == log[i]
             r == Range(e.start, e.len)
         IN  IF e.type = "A"
             THEN Replay(log, i + 1, n,
                         [rt |-> acc.rt \ r, ok |-> r \subseteq acc.rt])
             ELSE Replay(log, i + 1, n,
                         [rt |-> acc.rt \cup r, ok |-> r \cap acc.rt = {}])

space_map_load(sm, start, size) ==
    Replay(sm.log, 1, sm.sm_length, [rt |-> Range(start, size), ok |-> TRUE])

(***************************************************************************)
(* Metaslab groups and vdev bookkeeping.                                   *)
(***************************************************************************)
\* metaslab_compare, as "m1 sorts before m2" in mg_metaslab_tree.
metaslab_compare(m1, m2) ==
    \/ m1.ms_weight > m2.ms_weight
    \/ m1.ms_weight = m2.ms_weight /\ m1.ms_start < m2.ms_start

\* avl_add: the tree is kept as the sequence of its ms_ids in tree order.
RECURSIVE avl_add(_, _, _, _)
avl_add(tree, v, id, msf) ==
    IF tree = <<>> THEN <<id>>
    ELSE IF metaslab_compare(msf[<<v, id>>], msf[<<v, Head(tree)>>])
    THEN <<id>> \o tree
    ELSE <<Head(tree)>> \o avl_add(Tail(tree), v, id, msf)

avl_remove(tree, id) == SelectSeq(tree, LAMBDA x : x # id)

metaslab_group_sort(st, k, weight) ==
    LET s1 == Check(st, weight >= SPA_MINBLOCKSIZE - 1 \/ weight = 0,
                    "metaslab_group_sort: ASSERT(weight >= SPA_MINBLOCKSIZE-1 || weight == 0)")
        msf == [s1.ms EXCEPT ![k].ms_weight = weight]
    IN  [s1 EXCEPT !.ms = msf,
                   !.mg[k[1]].mg_tree = avl_add(avl_remove(@, k[2]), k[1], k[2], msf)]

\* vdev_dirty(vd, VDD_METASLAB, msp, txg): txg_list_add to vdev_ms_list.
vdev_dirty(st, k, txg) ==
    [st EXCEPT !.vd[k[1]].vdev_ms_list[Slot(txg)] = @ \cup {k[2]}]

\* vdev_space_update, which passes the deltas on to the class.
metaslab_class_space_update(c, alloc_delta, defer_delta, space_delta, dspace_delta) ==
    [c EXCEPT !.mc_alloc = @ + alloc_delta, !.mc_deferred = @ + defer_delta,
              !.mc_space = @ + space_delta, !.mc_dspace = @ + dspace_delta]

vdev_space_update(st, v, alloc_delta, defer_delta, space_delta) ==
    [st EXCEPT !.vd[v].vs_alloc = @ + alloc_delta,
               !.vd[v].vs_space = @ + space_delta,
               !.mc = metaslab_class_space_update(@, alloc_delta, defer_delta,
                                                  space_delta, space_delta)]

metaslab_weight(st, k) ==
    LET msp == st.ms[k]
        space == msp.ms_size - space_map_allocated(msp.ms_sm)
        weight == 2 * space - (msp.ms_id * space) \div st.vd[k[1]].vdev_ms_count
    IN  IF msp.ms_loaded /\ ~msop_fragmented(msp)
        THEN weight + WeightBits(msp.ms_weight)
        ELSE weight

(***************************************************************************)
(* The metaslab's trees.                                                   *)
(***************************************************************************)
\* range_tree_add / _remove on ms_tree, with the metaslab_rt_ops callbacks.
TreeAdd(st, k, off, size) ==
    IF st.ms[k].ms_condensing
    THEN Fail(st, "metaslab_rt_add: VERIFY(!msp->ms_condensing)")
    ELSE IF Range(off, size) \cap st.ms[k].ms_tree # {}
    THEN Fail(st, "range_tree_add(ms_tree): segment overlaps")
    ELSE [st EXCEPT !.ms[k].ms_tree = @ \cup Range(off, size),
                    !.ms[k].ms_size_tree = SizeTreeAdd(st.ms[k].ms_tree, @, off, size)]

TreeRemove(st, k, off, size) ==
    IF st.ms[k].ms_condensing
    THEN Fail(st, "metaslab_rt_remove: VERIFY(!msp->ms_condensing)")
    ELSE IF ~(Range(off, size) \subseteq st.ms[k].ms_tree)
    THEN Fail(st, "range_tree_remove(ms_tree): segment not in tree")
    ELSE [st EXCEPT !.ms[k].ms_tree = @ \ Range(off, size),
                    !.ms[k].ms_size_tree = SizeTreeRemove(st.ms[k].ms_tree, @, off, size)]

AllocAdd(st, k, txg, off, size) ==
    IF Range(off, size) \cap st.ms[k].ms_alloctree[Slot(txg)] # {}
    THEN Fail(st, "range_tree_add(ms_alloctree): segment overlaps")
    ELSE [st EXCEPT !.ms[k].ms_alloctree[Slot(txg)] = @ \cup Range(off, size)]

AllocRemove(st, k, txg, off, size) ==
    IF ~(Range(off, size) \subseteq st.ms[k].ms_alloctree[Slot(txg)])
    THEN Fail(st, "range_tree_remove(ms_alloctree): segment not in tree")
    ELSE [st EXCEPT !.ms[k].ms_alloctree[Slot(txg)] = @ \ Range(off, size)]

\* A free recorded in the freed tree, ms_freetree[TXG_CLEAN(txg) & TXG_MASK].
FreeAdd_freed(st, k, txg, off, size) ==
    IF Range(off, size) \cap st.ms[k].ms_freetree[Slot(TXG_CLEAN(txg))] # {}
    THEN Fail(st, "range_tree_add(ms_freetree): segment overlaps")
    ELSE [st EXCEPT !.ms[k].ms_freetree[Slot(TXG_CLEAN(txg))] = @ \cup Range(off, size)]

FreeAdd(st, k, txg, off, size) ==
    IF Range(off, size) \cap st.ms[k].ms_freetree[Slot(txg)] # {}
    THEN Fail(st, "range_tree_add(ms_freetree): segment overlaps")
    ELSE [st EXCEPT !.ms[k].ms_freetree[Slot(txg)] = @ \cup Range(off, size)]

(***************************************************************************)
(* Load, unload, activate, passivate.                                      *)
(***************************************************************************)
\* metaslab_load up to the point where space_map_load drops ms_lock.
LoadStart(st, k) ==
    LET s1 == Check(st, ~st.ms[k].ms_loaded, "metaslab_load: ASSERT(!msp->ms_loaded)")
        s2 == Check(s1, ~st.ms[k].ms_loading, "metaslab_load: ASSERT(!msp->ms_loading)")
    IN  [s2 EXCEPT !.ms[k].ms_loading = TRUE]

\* A metaslab_load that leaves the deferred frees in the free tree.
LoadFinish_keepdefer(st, k, error) ==
    LET msp == st.ms[k]
        r == space_map_load(msp.ms_sm, msp.ms_start, msp.ms_size)
        defer == UNION { msp.ms_defertree[t] : t \in 0 .. (TXG_DEFER_SIZE - 1) }
        err == IF msp.ms_sm.open THEN error ELSE 0
        tree == IF ~msp.ms_sm.open THEN Range(msp.ms_start, msp.ms_size)
                ELSE IF err = 0 THEN r.rt ELSE {}
    IN  IF msp.ms_tree # {}
        THEN Fail(st, "metaslab_load: range tree not empty")
        ELSE IF msp.ms_sm.open /\ err = 0 /\ ~r.ok
        THEN Fail(st, "space_map_load: entry does not apply")
        ELSE IF msp.ms_sm.open /\ err = 0
                /\ range_tree_space(r.rt) # msp.ms_size - msp.ms_sm.sm_alloc
        THEN Fail(st, "space_map_load: VERIFY3U(range_tree_space(rt), ==, space)")
        ELSE [st EXCEPT !.ms[k].ms_tree = IF err = 0 THEN tree ELSE {},
                        !.ms[k].ms_size_tree =
                            IF err = 0 THEN LoadSizeTree(tree, {}) ELSE {},
                        !.ms[k].ms_loaded = (err = 0),
                        !.ms[k].ms_loading = FALSE]

\* A metaslab_load that leaves ms_loading set when space_map_load fails.
LoadFinish_stuck(st, k, error) ==
    LET msp == st.ms[k]
        r == space_map_load(msp.ms_sm, msp.ms_start, msp.ms_size)
        defer == UNION { msp.ms_defertree[t] : t \in 0 .. (TXG_DEFER_SIZE - 1) }
        err == IF msp.ms_sm.open THEN error ELSE 0
        tree == IF ~msp.ms_sm.open THEN Range(msp.ms_start, msp.ms_size)
                ELSE IF err = 0 THEN r.rt ELSE {}
    IN  IF msp.ms_tree # {}
        THEN Fail(st, "metaslab_load: range tree not empty")
        ELSE IF msp.ms_sm.open /\ err = 0 /\ ~r.ok
        THEN Fail(st, "space_map_load: entry does not apply")
        ELSE IF msp.ms_sm.open /\ err = 0
                /\ range_tree_space(r.rt) # msp.ms_size - msp.ms_sm.sm_alloc
        THEN Fail(st, "space_map_load: VERIFY3U(range_tree_space(rt), ==, space)")
        ELSE IF err = 0 /\ ~(defer \subseteq tree)
        THEN Fail(st, "metaslab_load: range_tree_remove(ms_tree) of a deferred free")
        ELSE [st EXCEPT !.ms[k].ms_tree = IF err = 0 THEN tree \ defer ELSE {},
                        !.ms[k].ms_size_tree =
                            IF err = 0 THEN LoadSizeTree(tree, defer) ELSE {},
                        !.ms[k].ms_loaded = (err = 0),
                        !.ms[k].ms_loading = (err # 0)]

\* The rest of metaslab_load; error is space_map_load's result (0 or EIO).
\* sm_length cannot change while ms_loading is set (only metaslab_sync_done
\* calls space_map_update, after metaslab_load_wait), so the entries read
\* are those below sm_length now.
LoadFinish(st, k, error) ==
    LET msp == st.ms[k]
        r == space_map_load(msp.ms_sm, msp.ms_start, msp.ms_size)
        defer == UNION { msp.ms_defertree[t] : t \in 0 .. (TXG_DEFER_SIZE - 1) }
        err == IF msp.ms_sm.open THEN error ELSE 0
        tree == IF ~msp.ms_sm.open THEN Range(msp.ms_start, msp.ms_size)
                ELSE IF err = 0 THEN r.rt ELSE {}
    IN  IF msp.ms_tree # {}
        THEN Fail(st, "metaslab_load: range tree not empty")
        ELSE IF msp.ms_sm.open /\ err = 0 /\ ~r.ok
        THEN Fail(st, "space_map_load: entry does not apply")
        ELSE IF msp.ms_sm.open /\ err = 0
                /\ range_tree_space(r.rt) # msp.ms_size - msp.ms_sm.sm_alloc
        THEN Fail(st, "space_map_load: VERIFY3U(range_tree_space(rt), ==, space)")
        ELSE IF err = 0 /\ ~(defer \subseteq tree)
        THEN Fail(st, "metaslab_load: range_tree_remove(ms_tree) of a deferred free")
        ELSE [st EXCEPT !.ms[k].ms_tree = IF err = 0 THEN tree \ defer ELSE {},
                        !.ms[k].ms_size_tree =
                            IF err = 0 THEN LoadSizeTree(tree, defer) ELSE {},
                        !.ms[k].ms_loaded = (err = 0),
                        !.ms[k].ms_loading = FALSE]

\* A metaslab_unload whose range_tree_vacate leaves the size tree alone.
metaslab_unload_novacate(st, k) ==
    [st EXCEPT !.ms[k].ms_tree = {},
               !.ms[k].ms_loaded = FALSE,
               !.ms[k].ms_weight = WeightValue(@)]

metaslab_unload(st, k) ==
    [st EXCEPT !.ms[k].ms_tree = {},
               !.ms[k].ms_size_tree = metaslab_rt_vacate(@),
               !.ms[k].ms_loaded = FALSE,
               !.ms[k].ms_weight = WeightValue(@)]

\* metaslab_activate from the point after metaslab_load_wait and the load.
ActivateFinish(st, k, activation_weight, error) ==
    IF error # 0
    THEN metaslab_group_sort(st, k, 0)
    ELSE LET s1 == metaslab_group_sort(st, k,
                       WeightOr(st.ms[k].ms_weight, activation_weight))
             s2 == Check(s1, s1.ms[k].ms_loaded, "metaslab_activate: ASSERT(msp->ms_loaded)")
         IN  s2

metaslab_passivate(st, k, size) ==
    LET s1 == Check(st, size >= SPA_MINBLOCKSIZE
                        \/ range_tree_space(st.ms[k].ms_tree) = 0,
                    "metaslab_passivate: ASSERT(size >= SPA_MINBLOCKSIZE || space == 0)")
        s2 == metaslab_group_sort(s1, k, MIN(st.ms[k].ms_weight, size))
    IN  Check(s2, WeightBits(s2.ms[k].ms_weight) = 0,
              "metaslab_passivate: ASSERT((ms_weight & METASLAB_ACTIVE_MASK) == 0)")

\* A metaslab_block_alloc that leaves the range it returns in the free tree.
metaslab_block_alloc_keep(st, k, size) ==
    LET msp == st.ms[k]
        sector == 2^st.vd[k[1]].vdev_ashift
        Result(r) ==
            LET s0 == Check(st, msp.ms_ops = "ff"
                                \/ avl_numnodes(msp.ms_tree) = Cardinality(msp.ms_size_tree),
                            "msop_alloc: ASSERT3U(avl_numnodes(&ms_tree->rt_root), ==, avl_numnodes(&ms_size_tree))")
                s1 == [s0 EXCEPT !.ms[k].ms_lbas = r.lbas]
            IN  IF r.start = NoOffset THEN s1
                ELSE IF P2PHASE(r.start, sector) # 0
                THEN Fail(s1, "metaslab_block_alloc: VERIFY0(P2PHASE(start, 1 << ashift))")
                ELSE IF P2PHASE(size, sector) # 0
                THEN Fail(s1, "metaslab_block_alloc: VERIFY0(P2PHASE(size, 1 << ashift))")
                ELSE IF range_tree_space(msp.ms_tree) < size
                THEN Fail(s1, "metaslab_block_alloc: VERIFY3U(space - size, <=, ms_size)")
                ELSE s1
    IN  IF msp.ms_condensing
        THEN { [st |-> Fail(st, "metaslab_block_alloc: VERIFY(!msp->ms_condensing)"),
                start |-> NoOffset] }
        ELSE { [st |-> Result(r), start |-> r.start] : r \in msop_alloc(msp, size) }

\* metaslab_block_alloc: the results [st, start] it can produce.
metaslab_block_alloc(st, k, size) ==
    LET msp == st.ms[k]
        sector == 2^st.vd[k[1]].vdev_ashift
        Result(r) ==
            LET s0 == Check(st, msp.ms_ops = "ff"
                                \/ avl_numnodes(msp.ms_tree) = Cardinality(msp.ms_size_tree),
                            "msop_alloc: ASSERT3U(avl_numnodes(&ms_tree->rt_root), ==, avl_numnodes(&ms_size_tree))")
                s1 == [s0 EXCEPT !.ms[k].ms_lbas = r.lbas]
            IN  IF r.start = NoOffset THEN s1
                ELSE IF P2PHASE(r.start, sector) # 0
                THEN Fail(s1, "metaslab_block_alloc: VERIFY0(P2PHASE(start, 1 << ashift))")
                ELSE IF P2PHASE(size, sector) # 0
                THEN Fail(s1, "metaslab_block_alloc: VERIFY0(P2PHASE(size, 1 << ashift))")
                ELSE IF range_tree_space(msp.ms_tree) < size
                THEN Fail(s1, "metaslab_block_alloc: VERIFY3U(space - size, <=, ms_size)")
                ELSE TreeRemove(s1, k, r.start, size)
    IN  IF msp.ms_condensing
        THEN { [st |-> Fail(st, "metaslab_block_alloc: VERIFY(!msp->ms_condensing)"),
                start |-> NoOffset] }
        ELSE { [st |-> Result(r), start |-> r.start] : r \in msop_alloc(msp, size) }

(***************************************************************************)
(* Freeing.                                                                *)
(***************************************************************************)
\* A DVA is [vdev, offset, asize]; a zeroed DVA has asize 0.
Dva(v, off, size) == [vdev |-> v, offset |-> off, asize |-> size]
ZeroDva == Dva(0, 0, 0)

\* spa_freeze_txg(spa): UINT64_MAX (here above every txg) until spa_freeze()
\* is called.
UINT64_MAX == 2^30
spa_freeze_txg(st) == st.spa_freeze_txg

\* vdev_lookup_top and the bounds test shared by free_dva and claim_dva.
DvaBad(st, dva) ==
    \/ dva.vdev \notin DOMAIN st.vd
    \/ dva.offset \div 2^st.vd[dva.vdev].vdev_ms_shift >= st.vd[dva.vdev].vdev_ms_count

DvaMs(st, dva) == <<dva.vdev, dva.offset \div 2^st.vd[dva.vdev].vdev_ms_shift>>

\* A metaslab_free_dva that does not look at the pool's freeze txg.
metaslab_free_dva_thawed(st, dva, txg, now) ==
    IF DvaBad(st, dva)
    THEN Check(st, FALSE, "metaslab_free_dva: bad DVA, ASSERT(0)")
    ELSE
    LET k == DvaMs(st, dva)
        msp == st.ms[k]
        offset == dva.offset
        size == dva.asize
        sector == 2^st.vd[k[1]].vdev_ashift
    IN  IF now
        THEN LET s1 == AllocRemove(st, k, txg, offset, size)
             IN  IF Halted(s1) THEN s1
                 ELSE IF msp.ms_condensing
                 THEN Fail(s1, "metaslab_free_dva: VERIFY(!msp->ms_condensing)")
                 ELSE IF offset < msp.ms_start
                         \/ offset + size > msp.ms_start + msp.ms_size
                 THEN Fail(s1, "metaslab_free_dva: VERIFY3U(offset + size, <=, ms_start + ms_size)")
                 ELSE IF range_tree_space(msp.ms_tree) + size > msp.ms_size
                 THEN Fail(s1, "metaslab_free_dva: VERIFY3U(space + size, <=, ms_size)")
                 ELSE IF P2PHASE(offset, sector) # 0 \/ P2PHASE(size, sector) # 0
                 THEN Fail(s1, "metaslab_free_dva: VERIFY0(P2PHASE)")
                 ELSE TreeAdd(s1, k, offset, size)
        ELSE LET s1 == IF range_tree_space(msp.ms_freetree[Slot(txg)]) = 0
                       THEN vdev_dirty(st, k, txg) ELSE st
             IN  FreeAdd(s1, k, txg, offset, size)

\* metaslab_free_dva.
metaslab_free_dva(st, dva, txg, now) ==
    IF txg > spa_freeze_txg(st) THEN st
    ELSE IF DvaBad(st, dva)
    THEN Check(st, FALSE, "metaslab_free_dva: bad DVA, ASSERT(0)")
    ELSE
    LET k == DvaMs(st, dva)
        msp == st.ms[k]
        offset == dva.offset
        size == dva.asize
        sector == 2^st.vd[k[1]].vdev_ashift
    IN  IF now
        THEN LET s1 == AllocRemove(st, k, txg, offset, size)
             IN  IF Halted(s1) THEN s1
                 ELSE IF msp.ms_condensing
                 THEN Fail(s1, "metaslab_free_dva: VERIFY(!msp->ms_condensing)")
                 ELSE IF offset < msp.ms_start
                         \/ offset + size > msp.ms_start + msp.ms_size
                 THEN Fail(s1, "metaslab_free_dva: VERIFY3U(offset + size, <=, ms_start + ms_size)")
                 ELSE IF range_tree_space(msp.ms_tree) + size > msp.ms_size
                 THEN Fail(s1, "metaslab_free_dva: VERIFY3U(space + size, <=, ms_size)")
                 ELSE IF P2PHASE(offset, sector) # 0 \/ P2PHASE(size, sector) # 0
                 THEN Fail(s1, "metaslab_free_dva: VERIFY0(P2PHASE)")
                 ELSE TreeAdd(s1, k, offset, size)
        ELSE LET s1 == IF range_tree_space(msp.ms_freetree[Slot(txg)]) = 0
                       THEN vdev_dirty(st, k, txg) ELSE st
             IN  FreeAdd(s1, k, txg, offset, size)

\* metaslab_free: the loop over the block's DVAs.
RECURSIVE metaslab_free(_, _, _, _, _)
metaslab_free(st, dvas, d, txg, now) ==
    IF d > Len(dvas) \/ Halted(st) THEN st
    ELSE metaslab_free(metaslab_free_dva(st, dvas[d], txg, now), dvas, d + 1, txg, now)

(***************************************************************************)
(* Syncing.                                                                *)
(***************************************************************************)
\* A metaslab_should_condense whose two comparisons are strict.
metaslab_should_condense_strict(msp, ashift) ==
    LET segs == msp.ms_size_tree
        rs == SizeLast(segs)
        size == SegLen(rs) \div 2^ashift
        entries == size \div MIN(size, SM_RUN_MAX)
        segsz == entries * 8
    IN  IF segs = {} THEN TRUE
        ELSE /\ segsz < space_map_length(msp.ms_sm)
             /\ space_map_length(msp.ms_sm) >
                    (zfs_condense_pct * 8 * avl_numnodes(msp.ms_tree)) \div 100

metaslab_should_condense(msp, ashift) ==
    LET segs == msp.ms_size_tree
        rs == SizeLast(segs)
        size == SegLen(rs) \div 2^ashift
        entries == size \div MIN(size, SM_RUN_MAX)
        segsz == entries * 8
    IN  IF segs = {} THEN TRUE
        ELSE /\ segsz <= space_map_length(msp.ms_sm)
             /\ space_map_length(msp.ms_sm) >=
                    (zfs_condense_pct * 8 * avl_numnodes(msp.ms_tree)) \div 100

\* The trees metaslab_condense removes from its 100% allocated tree, in order.
CondenseHoles(msp, txg) ==
    << msp.ms_freetree[Slot(txg)] >>
    \o [t \in 1 .. TXG_DEFER_SIZE |-> msp.ms_defertree[t - 1]]
    \o [t \in 1 .. (TXG_CONCURRENT_STATES - 1) |-> msp.ms_alloctree[Slot(txg + t)]]

\* range_tree_walk(tree, range_tree_remove, condense_tree) for each of them.
RECURSIVE CondenseTree(_, _, _)
CondenseTree(holes, i, acc) ==
    IF i > Len(holes) \/ ~acc.ok THEN acc
    ELSE CondenseTree(holes, i + 1,
             [rt |-> acc.rt \ holes[i], ok |-> holes[i] \subseteq acc.rt])

\* metaslab_sync from the top to the end of the write, or to the point where
\* metaslab_condense drops ms_lock with ms_condensing set.  The result says
\* which of the two it was and carries the condense_tree.
SyncWrite(st, k, txg, pass) ==
    LET msp == st.ms[k]
        ashift == st.vd[k[1]].vdev_ashift
        sm0 == IF msp.ms_sm.open THEN msp.ms_sm ELSE space_map_open
        m1 == [msp EXCEPT !.ms_sm = sm0]
        ct0 == CondenseTree(CondenseHoles(msp, txg), 1,
                            [rt |-> Range(msp.ms_start, msp.ms_size), ok |-> TRUE])
        written == space_map_write(
                       space_map_write(sm0, msp.ms_alloctree[Slot(txg)], "A", ashift),
                       msp.ms_freetree[Slot(txg)], "F", ashift)
    IN  IF range_tree_space(msp.ms_alloctree[Slot(txg)]) = 0
           /\ range_tree_space(msp.ms_freetree[Slot(txg)]) = 0
        THEN [st |-> st, how |-> "clean", tree |-> {}]
        ELSE IF msp.ms_loaded /\ pass = 1 /\ metaslab_should_condense(m1, ashift)
        THEN IF ~ct0.ok
             THEN [st |-> Fail(st, "metaslab_condense: range_tree_remove(condense_tree)"),
                   how |-> "condense", tree |-> {}]
             ELSE [st |-> [st EXCEPT !.ms[k].ms_sm = sm0, !.ms[k].ms_condensing = TRUE],
                   how |-> "condense", tree |-> ct0.rt]
        ELSE [st |-> [st EXCEPT !.ms[k].ms_sm = written], how |-> "write", tree |-> {}]

\* A metaslab_condense that does not write the free tree after the
\* condense tree.
CondenseWrite_nofree(st, k, tree) ==
    LET msp == st.ms[k]
        ashift == st.vd[k[1]].vdev_ashift
        sm1 == space_map_truncate(msp.ms_sm)
        sm2 == space_map_write(sm1, tree, "A", ashift)
    IN  [st EXCEPT !.ms[k].ms_sm = sm2, !.ms[k].ms_condensing = FALSE]

\* metaslab_condense after it has taken ms_lock again.
CondenseWrite(st, k, tree) ==
    LET msp == st.ms[k]
        ashift == st.vd[k[1]].vdev_ashift
        sm1 == space_map_truncate(msp.ms_sm)
        sm2 == space_map_write(sm1, tree, "A", ashift)
        sm3 == space_map_write(sm2, msp.ms_tree, "F", ashift)
    IN  [st EXCEPT !.ms[k].ms_sm = sm3, !.ms[k].ms_condensing = FALSE]

\* A metaslab_sync that does not vacate the alloc tree it has written.
SyncTail_keepalloc(st, k, txg, pass) ==
    LET msp == st.ms[k]
        cur == Slot(txg)
        freed == Slot(TXG_CLEAN(txg))
        s1 == st
        s2 == IF pass = 1
              THEN [s1 EXCEPT !.ms[k].ms_freetree[cur] = msp.ms_freetree[freed],
                              !.ms[k].ms_freetree[freed] = msp.ms_freetree[cur]]
              ELSE IF msp.ms_freetree[cur] \cap msp.ms_freetree[freed] # {}
              THEN Fail(s1, "metaslab_sync: range_tree_add(freed_tree): segment overlaps")
              ELSE [s1 EXCEPT !.ms[k].ms_freetree[cur] = {},
                              !.ms[k].ms_freetree[freed] = @ \cup msp.ms_freetree[cur]]
        s3 == Check(s2, s2.ms[k].ms_alloctree[cur] = {},
                    "metaslab_sync: ASSERT0(range_tree_space(ms_alloctree[txg & TXG_MASK]))")
    IN  Check(s3, s3.ms[k].ms_freetree[cur] = {},
              "metaslab_sync: ASSERT0(range_tree_space(ms_freetree[txg & TXG_MASK]))")

\* A metaslab_sync that swaps the free tree with the freed tree on every pass.
SyncTail_swap(st, k, txg, pass) ==
    LET msp == st.ms[k]
        cur == Slot(txg)
        freed == Slot(TXG_CLEAN(txg))
        s1 == [st EXCEPT !.ms[k].ms_alloctree[cur] = {}]
        s2 == [s1 EXCEPT !.ms[k].ms_freetree[cur] = msp.ms_freetree[freed],
                         !.ms[k].ms_freetree[freed] = msp.ms_freetree[cur]]
        s3 == Check(s2, s2.ms[k].ms_alloctree[cur] = {},
                    "metaslab_sync: ASSERT0(range_tree_space(ms_alloctree[txg & TXG_MASK]))")
    IN  Check(s3, s3.ms[k].ms_freetree[cur] = {},
              "metaslab_sync: ASSERT0(range_tree_space(ms_freetree[txg & TXG_MASK]))")

\* metaslab_sync from range_tree_vacate(alloctree) to the end.
SyncTail(st, k, txg, pass) ==
    LET msp == st.ms[k]
        cur == Slot(txg)
        freed == Slot(TXG_CLEAN(txg))
        s1 == [st EXCEPT !.ms[k].ms_alloctree[cur] = {}]
        s2 == IF pass = 1
              THEN [s1 EXCEPT !.ms[k].ms_freetree[cur] = msp.ms_freetree[freed],
                              !.ms[k].ms_freetree[freed] = msp.ms_freetree[cur]]
              ELSE IF msp.ms_freetree[cur] \cap msp.ms_freetree[freed] # {}
              THEN Fail(s1, "metaslab_sync: range_tree_add(freed_tree): segment overlaps")
              ELSE [s1 EXCEPT !.ms[k].ms_freetree[cur] = {},
                              !.ms[k].ms_freetree[freed] = @ \cup msp.ms_freetree[cur]]
        s3 == Check(s2, s2.ms[k].ms_alloctree[cur] = {},
                    "metaslab_sync: ASSERT0(range_tree_space(ms_alloctree[txg & TXG_MASK]))")
    IN  Check(s3, s3.ms[k].ms_freetree[cur] = {},
              "metaslab_sync: ASSERT0(range_tree_space(ms_freetree[txg & TXG_MASK]))")

\* A metaslab_sync_done that reports alloc_delta alone as the change of the
\* allocated space.
SyncDoneRotate_nodefer(st, k, txg) ==
    LET msp == st.ms[k]
        freed == Slot(TXG_CLEAN(txg))
        defer == DSlot(txg)
        freed_tree == msp.ms_freetree[freed]
        defer_tree == msp.ms_defertree[defer]
        alloc_delta == space_map_alloc_delta(msp.ms_sm)
        defer_delta == range_tree_space(freed_tree) - range_tree_space(defer_tree)
        s1 == vdev_space_update(st, k[1], alloc_delta, defer_delta, 0)
        s2 == Check(s1, msp.ms_alloctree[Slot(txg)] = {},
                    "metaslab_sync_done: ASSERT0(range_tree_space(ms_alloctree[txg & TXG_MASK]))")
        s3 == Check(s2, msp.ms_freetree[Slot(txg)] = {},
                    "metaslab_sync_done: ASSERT0(range_tree_space(ms_freetree[txg & TXG_MASK]))")
        s4 == IF ~msp.ms_loaded \/ defer_tree = {} THEN s3
              ELSE IF msp.ms_condensing
              THEN Fail(s3, "metaslab_rt_add: VERIFY(!msp->ms_condensing)")
              ELSE IF defer_tree \cap msp.ms_tree # {}
              THEN Fail(s3, "range_tree_add(ms_tree): segment overlaps")
              ELSE [s3 EXCEPT !.ms[k].ms_tree = @ \cup defer_tree,
                              !.ms[k].ms_size_tree =
                                  SizeTreeAddAll(msp.ms_tree, @, defer_tree)]
        s5 == [s4 EXCEPT !.ms[k].ms_defertree[defer] = freed_tree,
                         !.ms[k].ms_freetree[freed] = {},
                         !.ms[k].ms_sm = space_map_update(@),
                         !.ms[k].ms_deferspace = @ + defer_delta]
        s6 == Check(s5, s5.ms[k].ms_deferspace >= 0,
                    "metaslab_sync_done: ASSERT3S(ms_deferspace, >=, 0)")
    IN  Check(s6, s6.ms[k].ms_deferspace <= msp.ms_size,
              "metaslab_sync_done: ASSERT3S(ms_deferspace, <=, ms_size)")

\* A metaslab_sync_done that counts the freed tree into ms_deferspace and
\* forgets the defer tree it has just emptied.
SyncDoneRotate_grow(st, k, txg) ==
    LET msp == st.ms[k]
        freed == Slot(TXG_CLEAN(txg))
        defer == DSlot(txg)
        freed_tree == msp.ms_freetree[freed]
        defer_tree == msp.ms_defertree[defer]
        alloc_delta == space_map_alloc_delta(msp.ms_sm)
        defer_delta == range_tree_space(freed_tree) - range_tree_space(defer_tree)
        s1 == vdev_space_update(st, k[1], alloc_delta + defer_delta, defer_delta, 0)
        s2 == Check(s1, msp.ms_alloctree[Slot(txg)] = {},
                    "metaslab_sync_done: ASSERT0(range_tree_space(ms_alloctree[txg & TXG_MASK]))")
        s3 == Check(s2, msp.ms_freetree[Slot(txg)] = {},
                    "metaslab_sync_done: ASSERT0(range_tree_space(ms_freetree[txg & TXG_MASK]))")
        s4 == IF ~msp.ms_loaded \/ defer_tree = {} THEN s3
              ELSE IF msp.ms_condensing
              THEN Fail(s3, "metaslab_rt_add: VERIFY(!msp->ms_condensing)")
              ELSE IF defer_tree \cap msp.ms_tree # {}
              THEN Fail(s3, "range_tree_add(ms_tree): segment overlaps")
              ELSE [s3 EXCEPT !.ms[k].ms_tree = @ \cup defer_tree,
                              !.ms[k].ms_size_tree =
                                  SizeTreeAddAll(msp.ms_tree, @, defer_tree)]
        s5 == [s4 EXCEPT !.ms[k].ms_defertree[defer] = freed_tree,
                         !.ms[k].ms_freetree[freed] = {},
                         !.ms[k].ms_sm = space_map_update(@),
                         !.ms[k].ms_deferspace = @ + range_tree_space(freed_tree)]
        s6 == Check(s5, s5.ms[k].ms_deferspace >= 0,
                    "metaslab_sync_done: ASSERT3S(ms_deferspace, >=, 0)")
    IN  Check(s6, s6.ms[k].ms_deferspace <= msp.ms_size,
              "metaslab_sync_done: ASSERT3S(ms_deferspace, <=, ms_size)")

\* metaslab_sync_done up to the ASSERTs on ms_deferspace: the space
\* accounting and the rotation of the freed tree into the defer ring.
SyncDoneRotate(st, k, txg) ==
    LET msp == st.ms[k]
        freed == Slot(TXG_CLEAN(txg))
        defer == DSlot(txg)
        freed_tree == msp.ms_freetree[freed]
        defer_tree == msp.ms_defertree[defer]
        alloc_delta == space_map_alloc_delta(msp.ms_sm)
        defer_delta == range_tree_space(freed_tree) - range_tree_space(defer_tree)
        s1 == vdev_space_update(st, k[1], alloc_delta + defer_delta, defer_delta, 0)
        s2 == Check(s1, msp.ms_alloctree[Slot(txg)] = {},
                    "metaslab_sync_done: ASSERT0(range_tree_space(ms_alloctree[txg & TXG_MASK]))")
        s3 == Check(s2, msp.ms_freetree[Slot(txg)] = {},
                    "metaslab_sync_done: ASSERT0(range_tree_space(ms_freetree[txg & TXG_MASK]))")
        s4 == IF ~msp.ms_loaded \/ defer_tree = {} THEN s3
              ELSE IF msp.ms_condensing
              THEN Fail(s3, "metaslab_rt_add: VERIFY(!msp->ms_condensing)")
              ELSE IF defer_tree \cap msp.ms_tree # {}
              THEN Fail(s3, "range_tree_add(ms_tree): segment overlaps")
              ELSE [s3 EXCEPT !.ms[k].ms_tree = @ \cup defer_tree,
                              !.ms[k].ms_size_tree =
                                  SizeTreeAddAll(msp.ms_tree, @, defer_tree)]
        s5 == [s4 EXCEPT !.ms[k].ms_defertree[defer] = freed_tree,
                         !.ms[k].ms_freetree[freed] = {},
                         !.ms[k].ms_sm = space_map_update(@),
                         !.ms[k].ms_deferspace = @ + defer_delta]
        s6 == Check(s5, s5.ms[k].ms_deferspace >= 0,
                    "metaslab_sync_done: ASSERT3S(ms_deferspace, >=, 0)")
    IN  Check(s6, s6.ms[k].ms_deferspace <= msp.ms_size,
              "metaslab_sync_done: ASSERT3S(ms_deferspace, <=, ms_size)")

\* A metaslab_sync_done that unloads one txg early: ms_access_txg <= txg.
SyncDoneUnload_early(s8, k, txg) ==
    LET msp == s8.ms[k]
    IN  IF msp.ms_loaded /\ msp.ms_access_txg <= txg
        THEN IF \E t \in 1 .. (TXG_CONCURRENT_STATES - 1) :
                    msp.ms_alloctree[Slot(txg + t)] # {}
             THEN Fail(s8, "metaslab_sync_done: VERIFY0(range_tree_space(ms_alloctree[(txg + t) & TXG_MASK]))")
             ELSE metaslab_unload(s8, k)
        ELSE s8

\* metaslab_sync_done's test of ms_access_txg and the unload.
SyncDoneUnload(s8, k, txg) ==
    LET msp == s8.ms[k]
    IN  IF msp.ms_loaded /\ msp.ms_access_txg < txg
        THEN IF \E t \in 1 .. (TXG_CONCURRENT_STATES - 1) :
                    msp.ms_alloctree[Slot(txg + t)] # {}
             THEN Fail(s8, "metaslab_sync_done: VERIFY0(range_tree_space(ms_alloctree[(txg + t) & TXG_MASK]))")
             ELSE metaslab_unload(s8, k)
        ELSE s8

SyncDoneFinish(s8, k, txg) ==
    LET s9 == SyncDoneUnload(s8, k, txg)
    IN  IF Halted(s9) THEN s9
        ELSE metaslab_group_sort(s9, k, metaslab_weight(s9, k))

\* A metaslab_sync_done that does not keep a metaslab with deferred frees
\* dirty.
metaslab_sync_done_once(st, k, txg) ==
    LET s7 == SyncDoneRotate(st, k, txg)
    IN  IF Halted(s7) THEN s7 ELSE SyncDoneFinish(s7, k, txg)

metaslab_sync_done(st, k, txg) ==
    LET s7 == SyncDoneRotate(st, k, txg)
        s8 == IF s7.ms[k].ms_deferspace # 0 THEN vdev_dirty(s7, k, txg + 1) ELSE s7
    IN  IF Halted(s7) THEN s7 ELSE SyncDoneFinish(s8, k, txg)

\* metaslab_fini: the metaslab leaves its group, its space leaves the vdev
\* and the class, and its trees are destroyed.
metaslab_fini(st, k) ==
    LET msp == st.ms[k]
        s1 == [st EXCEPT !.mg[k[1]].mg_tree = avl_remove(@, k[2])]
        s2 == vdev_space_update(s1, k[1], -space_map_allocated(msp.ms_sm), 0,
                                -msp.ms_size)
        s3 == metaslab_unload(s2, k)
        s4 == [s3 EXCEPT !.ms[k].ms_alloctree = [t \in 0 .. (TXG_SIZE - 1) |-> {}],
                         !.ms[k].ms_freetree = [t \in 0 .. (TXG_SIZE - 1) |-> {}],
                         !.ms[k].ms_defertree =
                             [t \in 0 .. (TXG_DEFER_SIZE - 1) |-> {}]]
    IN  Check(s4, s4.ms[k].ms_deferspace = 0, "metaslab_fini: ASSERT0(ms_deferspace)")

(***************************************************************************)
(* metaslab_alloc.  The allocating thread's position is the record at; a   *)
(* step is what the thread does between two blocking points (a lock it     *)
(* takes, a load it waits for).                                            *)
(***************************************************************************)
NoMs == <<NoOffset, NoOffset>>
NoGroup == NoOffset
\* The groups of the class in the pool that the rotor walks are studied on,
\* and that pool's log device, a top-level vdev whose group is in the log
\* class.
WalkGroups == 3
OtherClassVdevs == {WalkGroups}

\* No preload task is running; no thread is on a path that takes mutexes.
PtIdle == [pc |-> "idle", msp |-> NoMs]
LockThreads == 2
LkIdle == [t \in 1 .. LockThreads |-> [op |-> "idle", rest |-> <<>>, held |-> <<>>]]

\* The threads that call metaslab_load_wait, none of them in a call.
WaitThreads == 3
LwIdle == [t \in 1 .. WaitThreads |-> [pc |-> "idle", msp |-> NoMs, kind |-> ""]]

\* The NFS auth cache of one export before any request: no auth_cache entry
\* is allocated, the refresh queue and the dead list are empty, the refresh
\* thread is running (nfsauth_init) and no thread is in a call.
NfsEntries == 2
NfsClients == 2
NoEntry == 0
NfsIdle ==
    [auth_state |-> [e \in 1 .. NfsEntries |-> "unallocated"],
     mem |-> [e \in 1 .. NfsEntries |-> "unallocated"],
     freed_by |-> [e \in 1 .. NfsEntries |-> <<>>],
     exi_cache |-> <<>>,
     refreshq_queue |-> <<>>,
     refreshq_dead_entries |-> <<>>,
     refreshq_thread_state |-> "REFRESHQ_THREAD_RUNNING",
     exi_cache_lock |-> [readers |-> {}, writer |-> FALSE],
     rt |-> [pc |-> "top", ren |-> <<>>, p |-> NoEntry],
     gt |-> [c \in 1 .. NfsClients |-> [pc |-> "idle", p |-> NoEntry]],
     tr |-> [pc |-> "idle", todo |-> <<>>, p |-> NoEntry],
     fini |-> "no",
     used_freed |-> {}]
Far == 2^30

AtIdle == [pc |-> "idle", txg |-> 0, ndvas |-> 0, psize |-> 0, d |-> 0,
           dva |-> <<>>, mg |-> NoGroup, rotor |-> NoGroup, dshift |-> 3,
           all_zero |-> TRUE, zio_lock |-> FALSE, allocatable |-> TRUE,
           msp |-> NoMs, was_active |-> FALSE, asize |-> 0, distance |-> 0,
           error |-> 0, ret |-> NoOffset, got |-> 0, hint |-> <<>>, avoid |-> FALSE]

vdev_psize_to_asize(vdr, psize) == P2ROUNDUP(psize, 2^vdr.vdev_ashift)

metaslab_group_allocatable(st, v) ==
    \/ st.mg[v].mg_free_capacity > zfs_mg_noalloc_threshold
    \/ st.mc.mc_alloc_groups = 0

metaslab_distance(st, k, dva) ==
    LET ms_shift == st.vd[k[1]].vdev_ms_shift
        offset == dva.offset \div 2^ms_shift
        start == st.ms[k].ms_id
    IN  IF k[1] # dva.vdev THEN Far
        ELSE IF offset < start THEN (start - offset) * 2^ms_shift
        ELSE IF offset > start THEN (offset - start) * 2^ms_shift
        ELSE 0

\* The activation weight metaslab_group_alloc computes from dva[0 .. d-1].
ActivationWeight(v, dvas) ==
    IF \E i \in 1 .. Len(dvas) : dvas[i].vdev = v
    THEN METASLAB_WEIGHT_SECONDARY ELSE METASLAB_WEIGHT_PRIMARY

\* A walk of mg_metaslab_tree that takes the heaviest metaslab wherever the
\* earlier copies are.
RECURSIVE GroupSelect_anywhere(_, _, _, _, _, _, _)
GroupSelect_anywhere(st, v, tree, asize, aw, min_distance, dvas) ==
    IF tree = <<>> THEN [msp |-> NoMs, was_active |-> FALSE]
    ELSE LET k == <<v, Head(tree)>>
             msp == st.ms[k]
         IN  IF msp.ms_weight < asize THEN [msp |-> NoMs, was_active |-> FALSE]
             ELSE IF msp.ms_condensing
             THEN GroupSelect_anywhere(st, v, Tail(tree), asize, aw, min_distance, dvas)
             ELSE [msp |-> k, was_active |-> WeightBits(msp.ms_weight) # 0]

\* The walk of mg_metaslab_tree under mg_lock in metaslab_group_alloc.
RECURSIVE GroupSelect(_, _, _, _, _, _, _)
GroupSelect(st, v, tree, asize, aw, min_distance, dvas) ==
    IF tree = <<>> THEN [msp |-> NoMs, was_active |-> FALSE]
    ELSE LET k == <<v, Head(tree)>>
             msp == st.ms[k]
             target_distance == min_distance +
                 (IF space_map_allocated(msp.ms_sm) # 0 THEN 0 ELSE min_distance \div 2)
         IN  IF msp.ms_weight < asize THEN [msp |-> NoMs, was_active |-> FALSE]
             ELSE IF msp.ms_condensing
             THEN GroupSelect(st, v, Tail(tree), asize, aw, min_distance, dvas)
             ELSE IF aw = METASLAB_WEIGHT_PRIMARY
                     \/ \A i \in 1 .. Len(dvas) :
                            metaslab_distance(st, k, dvas[i]) >= target_distance
             THEN [msp |-> k, was_active |-> WeightBits(msp.ms_weight) # 0]
             ELSE GroupSelect(st, v, Tail(tree), asize, aw, min_distance, dvas)

\* The group the hint DVA of copy d names: vdev_lookup_top finds the vdev,
\* of this class or of another one (the key is then no group of this
\* class), or it no longer exists.
HintGroup(st, a, d) ==
    LET hv == a.hint[d + 1]
    IN  IF hv \notin DOMAIN st.mg
        THEN IF hv \in OtherClassVdevs THEN hv ELSE st.mc.mc_rotor
        ELSE IF a.avoid /\ st.mg[hv].mg_next # NoGroup
        THEN st.mg[hv].mg_next ELSE hv

\* A metaslab_alloc_dva that starts the walk for copy d at the group of
\* copy d-1.
DvaStart_stay(st, a, d) ==
    LET mg1 == IF a.hint # <<>> THEN HintGroup(st, a, d)
               ELSE IF d # 0 THEN a.dva[d].vdev ELSE st.mc.mc_rotor
        mg0 == IF mg1 \notin DOMAIN st.mg THEN st.mc.mc_rotor
               ELSE IF st.mg[mg1].mg_activation_count <= 0 THEN st.mc.mc_rotor
               ELSE mg1
    IN  [a EXCEPT !.pc = "group", !.d = d, !.mg = mg0, !.rotor = mg0,
                  !.dshift = 3, !.all_zero = TRUE, !.zio_lock = FALSE,
                  !.allocatable = TRUE, !.msp = NoMs]

\* metaslab_alloc_dva up to the rotor walk: where the search for copy d
\* starts.  a.hint is empty when hintbp is NULL.
DvaStart(st, a, d) ==
    LET mg1 == IF a.hint # <<>> THEN HintGroup(st, a, d)
               ELSE IF d # 0 THEN st.mg[a.dva[d].vdev].mg_next ELSE st.mc.mc_rotor
        mg0 == IF mg1 \notin DOMAIN st.mg THEN st.mc.mc_rotor
               ELSE IF st.mg[mg1].mg_activation_count <= 0 THEN st.mc.mc_rotor
               ELSE mg1
    IN  [a EXCEPT !.pc = "group", !.d = d, !.mg = mg0, !.rotor = mg0,
                  !.dshift = 3, !.all_zero = TRUE, !.zio_lock = FALSE,
                  !.allocatable = TRUE, !.msp = NoMs]

\* metaslab_alloc's error path: undo copies d-1 .. 0, or return at once.
AllocFail(a, error) ==
    IF a.d > 0
    THEN [a EXCEPT !.pc = "undo", !.error = error, !.got = a.d, !.msp = NoMs]
    ELSE [a EXCEPT !.pc = "idle", !.error = error, !.ret = error, !.got = 0,
                   !.dva = <<>>, !.msp = NoMs]

\* The "next:" label of metaslab_alloc_dva and the end of its do-while loop.
NextGroup(st, a) ==
    LET nxt == st.mg[a.mg].mg_next
        s1 == [st EXCEPT !.mc.mc_rotor = nxt, !.mc.mc_aliquot = 0]
    IN  IF nxt # a.rotor
        THEN [st |-> s1, a |-> [a EXCEPT !.pc = "group", !.mg = nxt]]
        ELSE IF ~a.all_zero
        THEN [st |-> s1, a |-> [a EXCEPT !.pc = "group", !.mg = nxt,
                                         !.dshift = @ + 1, !.all_zero = TRUE]]
        ELSE IF ~a.allocatable /\ ~a.zio_lock
        THEN [st |-> s1, a |-> [a EXCEPT !.pc = "group", !.mg = nxt, !.dshift = 3,
                                         !.zio_lock = TRUE, !.all_zero = TRUE]]
        ELSE [st |-> s1, a |-> AllocFail(a, ENOSPC)]

\* One iteration of metaslab_alloc_dva's loop up to the choice of a metaslab
\* (pc "group"), or metaslab_group_alloc's choice alone on a retry ("select").
AllocGroupStep(st, a) ==
    LET v == a.mg
        vdr == st.vd[v]
        s0 == IF a.pc = "group"
              THEN Check(st, st.mg[v].mg_activation_count = 1,
                         "metaslab_alloc_dva: ASSERT(mg->mg_activation_count == 1)")
              ELSE st
        allocatable == IF a.pc = "select" THEN a.allocatable
                       ELSE IF a.psize > SPA_GANGBLOCKSIZE
                       THEN metaslab_group_allocatable(st, v) ELSE TRUE
        dist0 == vdr.vdev_asize \div 2^a.dshift
        distance == IF a.pc = "select" THEN a.distance
                    ELSE IF dist0 <= 2^vdr.vdev_ms_shift THEN 0 ELSE dist0
        all_zero == IF a.pc = "select" \/ ~allocatable THEN a.all_zero
                    ELSE a.all_zero /\ distance = 0
        asize == vdev_psize_to_asize(vdr, a.psize)
        a1 == [a EXCEPT !.allocatable = allocatable, !.distance = distance,
                        !.all_zero = all_zero, !.asize = asize]
        sel == GroupSelect(s0, v, s0.mg[v].mg_tree, asize,
                           ActivationWeight(v, a.dva), distance, a.dva)
    IN  IF allocatable /\ sel.msp # NoMs
        THEN [st |-> s0, a |-> [a1 EXCEPT !.pc = "lock", !.msp = sel.msp,
                                          !.was_active = sel.was_active]]
        ELSE NextGroup(s0, a1)

\* A metaslab_alloc_dva that moves the rotor on after every allocation.
AllocCommit_eager(st, a, offset) ==
    LET k == a.msp
        v == k[1]
        s1 == IF range_tree_space(st.ms[k].ms_alloctree[Slot(a.txg)]) = 0
              THEN vdev_dirty(st, k, a.txg) ELSE st
        s2 == AllocAdd(s1, k, a.txg, offset, a.asize)
        s3 == [s2 EXCEPT !.ms[k].ms_access_txg = a.txg + metaslab_unload_delay]
        vu == (s3.vd[v].vs_alloc * 100) \div (s3.vd[v].vs_space + 1)
        cu == (s3.mc.mc_alloc * 100) \div (s3.mc.mc_space + 1)
        s4 == IF s3.mc.mc_aliquot = 0
              THEN [s3 EXCEPT !.mg[v].mg_bias = ((cu - vu) * s3.mg[v].mg_aliquot) \div 100]
              ELSE s3
        aliquot == s4.mc.mc_aliquot + a.asize
        s5 == IF aliquot >= a.asize
              THEN [s4 EXCEPT !.mc.mc_rotor = s4.mg[v].mg_next, !.mc.mc_aliquot = 0]
              ELSE [s4 EXCEPT !.mc.mc_aliquot = aliquot]
        a1 == [a EXCEPT !.dva = Append(@, Dva(v, offset, a.asize))]
    IN  IF a.d + 1 < a.ndvas
        THEN [st |-> s5, a |-> DvaStart(s5, a1, a.d + 1)]
        ELSE [st |-> s5, a |-> [a1 EXCEPT !.pc = "idle", !.ret = 0, !.error = 0,
                                          !.got = a.ndvas, !.msp = NoMs]]

\* A metaslab_group_alloc that does not record the range in the alloc tree.
AllocCommit_unrecorded(st, a, offset) ==
    LET k == a.msp
        v == k[1]
        s1 == IF range_tree_space(st.ms[k].ms_alloctree[Slot(a.txg)]) = 0
              THEN vdev_dirty(st, k, a.txg) ELSE st
        s2 == s1
        s3 == [s2 EXCEPT !.ms[k].ms_access_txg = a.txg + metaslab_unload_delay]
        vu == (s3.vd[v].vs_alloc * 100) \div (s3.vd[v].vs_space + 1)
        cu == (s3.mc.mc_alloc * 100) \div (s3.mc.mc_space + 1)
        s4 == IF s3.mc.mc_aliquot = 0
              THEN [s3 EXCEPT !.mg[v].mg_bias = ((cu - vu) * s3.mg[v].mg_aliquot) \div 100]
              ELSE s3
        aliquot == s4.mc.mc_aliquot + a.asize
        s5 == IF aliquot >= s4.mg[v].mg_aliquot + s4.mg[v].mg_bias
              THEN [s4 EXCEPT !.mc.mc_rotor = s4.mg[v].mg_next, !.mc.mc_aliquot = 0]
              ELSE [s4 EXCEPT !.mc.mc_aliquot = aliquot]
        a1 == [a EXCEPT !.dva = Append(@, Dva(v, offset, a.asize))]
    IN  IF a.d + 1 < a.ndvas
        THEN [st |-> s5, a |-> DvaStart(s5, a1, a.d + 1)]
        ELSE [st |-> s5, a |-> [a1 EXCEPT !.pc = "idle", !.ret = 0, !.error = 0,
                                          !.got = a.ndvas, !.msp = NoMs]]

\* The tail of metaslab_group_alloc once metaslab_block_alloc has returned
\* offset, then the tail of metaslab_alloc_dva and metaslab_alloc's loop.
AllocCommit(st, a, offset) ==
    LET k == a.msp
        v == k[1]
        s1 == IF range_tree_space(st.ms[k].ms_alloctree[Slot(a.txg)]) = 0
              THEN vdev_dirty(st, k, a.txg) ELSE st
        s2 == AllocAdd(s1, k, a.txg, offset, a.asize)
        s3 == [s2 EXCEPT !.ms[k].ms_access_txg = a.txg + metaslab_unload_delay]
        vu == (s3.vd[v].vs_alloc * 100) \div (s3.vd[v].vs_space + 1)
        cu == (s3.mc.mc_alloc * 100) \div (s3.mc.mc_space + 1)
        s4 == IF s3.mc.mc_aliquot = 0
              THEN [s3 EXCEPT !.mg[v].mg_bias = ((cu - vu) * s3.mg[v].mg_aliquot) \div 100]
              ELSE s3
        aliquot == s4.mc.mc_aliquot + a.asize
        s5 == IF aliquot >= s4.mg[v].mg_aliquot + s4.mg[v].mg_bias
              THEN [s4 EXCEPT !.mc.mc_rotor = s4.mg[v].mg_next, !.mc.mc_aliquot = 0]
              ELSE [s4 EXCEPT !.mc.mc_aliquot = aliquot]
        a1 == [a EXCEPT !.dva = Append(@, Dva(v, offset, a.asize))]
    IN  IF a.d + 1 < a.ndvas
        THEN [st |-> s5, a |-> DvaStart(s5, a1, a.d + 1)]
        ELSE [st |-> s5, a |-> [a1 EXCEPT !.pc = "idle", !.ret = 0, !.error = 0,
                                          !.got = a.ndvas, !.msp = NoMs]]

\* A metaslab_group_alloc that does not look at ms_condensing once it holds
\* ms_lock.
AfterActivate_unchecked(st, a, error) ==
    LET k == a.msp
        again == [a EXCEPT !.pc = "select"]
    IN  IF Halted(st) \/ error # 0
        THEN { [st |-> st, a |-> again] }
        ELSE { IF r.start # NoOffset /\ ~Halted(r.st)
               THEN AllocCommit(r.st, a, r.start)
               ELSE IF Halted(r.st) THEN [st |-> r.st, a |-> again]
               ELSE [st |-> metaslab_passivate(r.st, k,
                                metaslab_block_maxsize(r.st.ms[k])),
                     a |-> again]
               : r \in metaslab_block_alloc(st, k, a.asize) }

\* metaslab_group_alloc after metaslab_activate has returned error.
AfterActivate(st, a, error) ==
    LET k == a.msp
        again == [a EXCEPT !.pc = "select"]
    IN  IF Halted(st) \/ error # 0 \/ st.ms[k].ms_condensing
        THEN { [st |-> st, a |-> again] }
        ELSE { IF r.start # NoOffset /\ ~Halted(r.st)
               THEN AllocCommit(r.st, a, r.start)
               ELSE IF Halted(r.st) THEN [st |-> r.st, a |-> again]
               ELSE [st |-> metaslab_passivate(r.st, k,
                                metaslab_block_maxsize(r.st.ms[k])),
                     a |-> again]
               : r \in metaslab_block_alloc(st, k, a.asize) }

\* metaslab_activate from the return of metaslab_load_wait.
AllocActivate(st, a) ==
    LET k == a.msp
        aw == ActivationWeight(k[1], a.dva)
        s1 == LoadStart(st, k)
    IN  IF st.ms[k].ms_loaded
        THEN UNION { AfterActivate(s, a, 0) : s \in {ActivateFinish(st, k, aw, 0)} }
        ELSE IF st.ms[k].ms_sm.open
        THEN { [st |-> s1, a |-> [a EXCEPT !.pc = "loading"]] }
        ELSE UNION { AfterActivate(s3, a, 0)
                     : s3 \in { IF Halted(s2) THEN s2 ELSE ActivateFinish(s2, k, aw, 0)
                                : s2 \in {LoadFinish(s1, k, 0)} } }

\* metaslab_group_alloc from mutex_enter(&msp->ms_lock).
AllocLockedStep(st, a) ==
    LET k == a.msp
        w == st.ms[k].ms_weight
        aw == ActivationWeight(k[1], a.dva)
        again == [a EXCEPT !.pc = "select"]
        s1 == Check(st, st.ms[k].ms_loaded, "metaslab_activate: ASSERT(msp->ms_loaded)")
    IN  IF w < a.asize \/ (a.was_active /\ WeightBits(w) = 0
                           /\ aw = METASLAB_WEIGHT_PRIMARY)
        THEN { [st |-> st, a |-> again] }
        ELSE IF HasSecondary(w) /\ aw = METASLAB_WEIGHT_PRIMARY
        THEN { [st |-> metaslab_passivate(st, k, WeightValue(w)), a |-> again] }
        ELSE IF WeightBits(w) # 0 THEN AfterActivate(s1, a, 0)
        ELSE IF st.ms[k].ms_loading
        THEN { [st |-> st, a |-> [a EXCEPT !.pc = "wait"]] }
        ELSE AllocActivate(st, a)

\* The load the thread started has finished with error (0 or EIO).
AllocLoadedStep(st, a, error) ==
    LET k == a.msp
        Activated(s1) == IF Halted(s1) THEN s1
                         ELSE ActivateFinish(s1, k, ActivationWeight(k[1], a.dva), error)
    IN  UNION { AfterActivate(s2, a, error)
                : s2 \in { Activated(s1) : s1 \in {LoadFinish(st, k, error)} } }

\* An undo loop that frees with now = B_FALSE.
AllocUndoStep_deferred(st, a) ==
    LET d == a.got
        s1 == metaslab_free_dva(st, a.dva[d], a.txg, FALSE)
        a1 == [a EXCEPT !.got = d - 1, !.dva = SubSeq(@, 1, d - 1)]
    IN  [st |-> s1,
         a |-> IF d = 1 THEN [a1 EXCEPT !.pc = "idle", !.ret = a.error] ELSE a1]

\* One iteration of the undo loop of metaslab_alloc.
AllocUndoStep(st, a) ==
    LET d == a.got
        s1 == metaslab_free_dva(st, a.dva[d], a.txg, TRUE)
        a1 == [a EXCEPT !.got = d - 1, !.dva = SubSeq(@, 1, d - 1)]
    IN  [st |-> s1,
         a |-> IF d = 1 THEN [a1 EXCEPT !.pc = "idle", !.ret = a.error] ELSE a1]

(***************************************************************************)
(* metaslab_claim.  The claiming thread's position is the record ct; cur   *)
(* is the txg of the pass in progress, 0 during the dry run.               *)
(***************************************************************************)
CtIdle == [pc |-> "idle", txg |-> 0, cur |-> 0, dva |-> <<>>, d |-> 0,
           msp |-> NoMs, error |-> 0, ret |-> NoOffset, claimed |-> 0]

\* metaslab_claim's loop control after metaslab_claim_dva returned error,
\* the ASSERT that ends each pass, and the start of the real pass.
ClaimNext(st, c, error) ==
    LET s1 == Check(st, error = 0 \/ c.cur = 0,
                    "metaslab_claim: ASSERT(error == 0 || txg == 0)")
    IN  IF error = 0 /\ c.d < Len(c.dva)
        THEN [st |-> st, c |-> [c EXCEPT !.pc = "dva", !.d = @ + 1, !.msp = NoMs]]
        ELSE IF error = 0 /\ c.cur = 0 /\ c.txg # 0
        THEN [st |-> s1, c |-> [c EXCEPT !.pc = "dva", !.d = 1, !.cur = c.txg,
                                         !.msp = NoMs]]
        ELSE [st |-> s1, c |-> [c EXCEPT !.pc = "idle", !.error = error,
                                         !.ret = error, !.msp = NoMs]]

\* A claim that does not look the range up in the free tree.
ClaimError_unchecked(msp, dva, error0) == error0

\* metaslab_claim_dva's test of the range against the free tree.
ClaimError(msp, dva, error0) ==
    IF error0 = 0 /\ ~range_tree_contains(msp.ms_tree, dva.offset, dva.asize)
    THEN ENOENT ELSE error0

\* metaslab_claim_dva after metaslab_activate has returned error0.
ClaimAfter(st, c, error0) ==
    LET dva == c.dva[c.d]
        k == DvaMs(st, dva)
        msp == st.ms[k]
        sector == 2^st.vd[k[1]].vdev_ashift
        error == ClaimError(msp, dva, error0)
        s1 == TreeRemove(st, k, dva.offset, dva.asize)
        s2 == IF range_tree_space(msp.ms_alloctree[Slot(c.cur)]) = 0
              THEN vdev_dirty(s1, k, c.cur) ELSE s1
        s3 == AllocAdd(s2, k, c.cur, dva.offset, dva.asize)
    IN  IF Halted(st) THEN [st |-> st, c |-> c]
        ELSE IF error # 0 \/ c.cur = 0 THEN ClaimNext(st, c, error)
        ELSE IF msp.ms_condensing
        THEN [st |-> Fail(st, "metaslab_claim_dva: VERIFY(!msp->ms_condensing)"), c |-> c]
        ELSE IF P2PHASE(dva.offset, sector) # 0 \/ P2PHASE(dva.asize, sector) # 0
        THEN [st |-> Fail(st, "metaslab_claim_dva: VERIFY0(P2PHASE)"), c |-> c]
        ELSE IF Halted(s1) THEN [st |-> s1, c |-> c]
        ELSE IF Halted(s3) THEN [st |-> s3, c |-> c]
        ELSE ClaimNext(s3, [c EXCEPT !.claimed = @ + 1], 0)

\* metaslab_activate(msp, METASLAB_WEIGHT_SECONDARY) from the return of
\* metaslab_load_wait.
ClaimActivate(st, c) ==
    LET k == DvaMs(st, c.dva[c.d])
        s1 == LoadStart(st, k)
        s2 == LoadFinish(s1, k, 0)
    IN  IF st.ms[k].ms_loaded
        THEN ClaimAfter(ActivateFinish(st, k, METASLAB_WEIGHT_SECONDARY, 0), c, 0)
        ELSE IF st.ms[k].ms_sm.open
        THEN [st |-> s1, c |-> [c EXCEPT !.pc = "loading", !.msp = k]]
        ELSE ClaimAfter(IF Halted(s2) THEN s2
                        ELSE ActivateFinish(s2, k, METASLAB_WEIGHT_SECONDARY, 0), c, 0)

\* metaslab_claim_dva for DVA d of the block, from the top.
ClaimDvaStep(st, c) ==
    LET dva == c.dva[c.d]
        k == DvaMs(st, dva)
        msp == st.ms[k]
    IN  IF DvaBad(st, dva) THEN ClaimNext(st, c, ENXIO)
        ELSE IF c.cur = 0 /\ msp.ms_loaded THEN ClaimAfter(st, c, 0)
        ELSE IF WeightBits(msp.ms_weight) # 0
        THEN ClaimAfter(Check(st, msp.ms_loaded,
                              "metaslab_activate: ASSERT(msp->ms_loaded)"), c, 0)
        ELSE IF msp.ms_loading
        THEN [st |-> st, c |-> [c EXCEPT !.pc = "wait", !.msp = k]]
        ELSE ClaimActivate(st, c)

\* The load the thread started has finished with error (0 or EIO).
ClaimLoadedStep(st, c, error) ==
    LET k == c.msp
        s1 == LoadFinish(st, k, error)
        s2 == IF Halted(s1) THEN s1
              ELSE ActivateFinish(s1, k, METASLAB_WEIGHT_SECONDARY, error)
    IN  ClaimAfter(s2, c, error)

(***************************************************************************)
(* The pool: one top-level vdev of MsCount metaslabs, created at           *)
(* TXG_INITIAL; the callers of the allocator; and the syncing thread       *)
(* (spa_sync, vdev_sync and vdev_sync_done, section 5 of the design).      *)
(***************************************************************************)
Ashift == 1
MsShift == 3
MsCount == 2
MaxPass == 2

Vdevs == {0}
MsKeys == Vdevs \X (0 .. (MsCount - 1))
Strategies == {"ff", "df", "cf", "ndf"}
LastTxg == TXG_INITIAL + MaxTxgs - 1

\* Block sizes asked of metaslab_alloc, and the blocks handed to metaslab_claim.
PSizes == {2^Ashift, 2^MsShift}
ClaimBps ==
    { <<Dva(0, 0, 2^Ashift)>>,
      <<Dva(0, 2^Ashift, 2^Ashift), Dva(0, 0, 2 * 2^Ashift)>>,
      <<Dva(0, MsCount * 2^MsShift, 2^Ashift)>>,
      <<Dva(1, 0, 2^Ashift)>> }

\* metaslab_init(mg, id, 0, TXG_INITIAL) before its metaslab_sync_done(msp, 0).
NewMetaslab(id, ops) ==
    [ms_id |-> id, ms_start |-> id * 2^MsShift, ms_size |-> 2^MsShift,
     ms_ops |-> ops, ms_tree |-> {}, ms_size_tree |-> {}, ms_loaded |-> FALSE, ms_loading |-> FALSE,
     ms_condensing |-> FALSE, ms_weight |-> 0, ms_access_txg |-> 0,
     ms_lbas |-> NoLbas,
     ms_alloctree |-> [t \in 0 .. (TXG_SIZE - 1) |-> {}],
     ms_freetree |-> [t \in 0 .. (TXG_SIZE - 1) |-> {}],
     ms_defertree |-> [t \in 0 .. (TXG_DEFER_SIZE - 1) |-> {}],
     ms_deferspace |-> 0, ms_sm |-> NoSm]

\* metaslab_group_create, then metaslab_group_add of every new metaslab.
NewGroup ==
    [mg_tree |-> [i \in 1 .. MsCount |-> i - 1], mg_activation_count |-> 0,
     mg_prev |-> NoGroup, mg_next |-> NoGroup, mg_aliquot |-> 0, mg_bias |-> 0,
     mg_free_capacity |-> 0, mg_allocatable |-> FALSE]

NewVdev ==
    [vdev_ashift |-> Ashift, vdev_ms_shift |-> MsShift, vdev_ms_count |-> MsCount,
     vdev_asize |-> MsCount * 2^MsShift, vdev_children |-> 0,
     vs_alloc |-> 0, vs_space |-> 0,
     vdev_ms_list |-> [t \in 0 .. (TXG_SIZE - 1) |-> {}]]

NewClass ==
    [mc_rotor |-> NoGroup, mc_aliquot |-> 0, mc_alloc_groups |-> 0,
     mc_alloc |-> 0, mc_deferred |-> 0, mc_space |-> 0, mc_dspace |-> 0]

metaslab_group_alloc_update(st, v) ==
    LET vs == st.vd[v]
        cap == ((vs.vs_space - vs.vs_alloc) * 100) \div (vs.vs_space + 1)
        now == cap > zfs_mg_noalloc_threshold
        was == st.mg[v].mg_allocatable
    IN  [st EXCEPT !.mg[v].mg_free_capacity = cap,
                   !.mg[v].mg_allocatable = now,
                   !.mc.mc_alloc_groups = IF was /\ ~now THEN @ - 1
                                          ELSE IF ~was /\ now THEN @ + 1 ELSE @]

\* A metaslab_group_activate that links the group whatever its count.
metaslab_group_activate_always(st, v) ==
    LET s1 == [st EXCEPT !.mg[v].mg_activation_count = @ + 1]
        s2 == [s1 EXCEPT !.mg[v].mg_aliquot =
                             metaslab_aliquot * MAX(1, st.vd[v].vdev_children)]
        s3 == metaslab_group_alloc_update(s2, v)
        mgprev == st.mc.mc_rotor
        mgnext == st.mg[mgprev].mg_next
        s4 == IF mgprev = NoGroup
              THEN [s3 EXCEPT !.mg[v].mg_prev = v, !.mg[v].mg_next = v]
              ELSE [[[s3 EXCEPT !.mg[v].mg_prev = mgprev, !.mg[v].mg_next = mgnext]
                         EXCEPT !.mg[mgprev].mg_next = v]
                         EXCEPT !.mg[mgnext].mg_prev = v]
    IN  IF FALSE THEN s1
        ELSE [s4 EXCEPT !.mc.mc_rotor = v]

metaslab_group_activate(st, v) ==
    LET s1 == [st EXCEPT !.mg[v].mg_activation_count = @ + 1]
        s2 == [s1 EXCEPT !.mg[v].mg_aliquot =
                             metaslab_aliquot * MAX(1, st.vd[v].vdev_children)]
        s3 == metaslab_group_alloc_update(s2, v)
        mgprev == st.mc.mc_rotor
        mgnext == st.mg[mgprev].mg_next
        s4 == IF mgprev = NoGroup
              THEN [s3 EXCEPT !.mg[v].mg_prev = v, !.mg[v].mg_next = v]
              ELSE [[[s3 EXCEPT !.mg[v].mg_prev = mgprev, !.mg[v].mg_next = mgnext]
                         EXCEPT !.mg[mgprev].mg_next = v]
                         EXCEPT !.mg[mgnext].mg_prev = v]
    IN  IF s1.mg[v].mg_activation_count <= 0 THEN s1
        ELSE [s4 EXCEPT !.mc.mc_rotor = v]

\* The tail of metaslab_init at TXG_INITIAL: metaslab_sync_done(msp, 0) finds
\* no trees, creates them and adds the metaslab's space to the vdev; then the
\* metaslab is dirtied for the first txg.
metaslab_init(st, k) ==
    LET s1 == vdev_space_update(st, k[1], 0, 0, st.ms[k].ms_size)
        s2 == metaslab_sync_done(s1, k, 0)
    IN  vdev_dirty(s2, k, TXG_INITIAL)

RECURSIVE InitMetaslabs(_, _, _)
InitMetaslabs(st, v, i) ==
    IF i = MsCount THEN st
    ELSE CHOOSE r \in { InitMetaslabs(s, v, i + 1) : s \in {metaslab_init(st, <<v, i>>)} } :
             TRUE

Created(ops) ==
    LET st0 == [ms |-> [k \in MsKeys |-> NewMetaslab(k[2], ops)],
                mg |-> [v \in Vdevs |-> NewGroup],
                mc |-> NewClass,
                vd |-> [v \in Vdevs |-> NewVdev],
                panic |-> "", fired |-> {}, spa_freeze_txg |-> UINT64_MAX]
    IN  metaslab_group_activate(InitMetaslabs(st0, 0, 0), 0)

NoSync == [msp |-> NoMs, tree |-> {}]
NoHist == [freed |-> {}, back |-> {}, same |-> {}, done |-> [k \in MsKeys |-> 0],
           condensed |-> NoMs]

\* zfs_metaslab_ops, the strategy of the pool's class.
zfs_metaslab_ops == "df"

Init ==
        LET st == Created(zfs_metaslab_ops)
        IN  /\ ms = st.ms /\ mg = st.mg /\ mc = st.mc /\ vd = st.vd
            /\ panic = st.panic /\ fired = st.fired
            /\ spa = [syncing_txg |-> TXG_INITIAL, sync_pass |-> 1, phase |-> "write",
                     dirty |-> FALSE, spa_freeze_txg |-> UINT64_MAX]
            /\ at = AtIdle /\ ct = CtIdle /\ syn = NoSync
            /\ blocks = {} /\ lost = {} /\ hist = NoHist /\ budget = MaxOps /\ pt = PtIdle /\ lk = LkIdle /\ lw = LwIdle /\ nfs = NfsIdle

(***************************************************************************)
(* Actions.  A handler that panics halts the machine: only the panic is    *)
(* recorded.  blocks holds the block pointers the callers own, lost the    *)
(* DVAs a failed metaslab_claim left claimed, and hist is history kept for *)
(* the properties: the deferred frees still pending, those the last        *)
(* sync_done returned, the bytes freed in the txg they were allocated in,  *)
(* the last txg each metaslab's sync_done ran for, and the metaslab the    *)
(* last step condensed.                                                    *)
(***************************************************************************)
MaxDvas == 2
\* How many txgs after the syncing one accept new work (open, quiescing).
OpenTxgs == 1

Commit(st, a, c, sy, sp, bl, lo, hi, bu) ==
    IF st.panic # ""
    THEN /\ panic' = st.panic
         /\ fired' = st.fired
         /\ UNCHANGED <<ms, mg, mc, vd, spa, at, ct, syn, blocks, lost, hist, budget,
                        pt, lk, lw, nfs>>
    ELSE /\ ms' = st.ms /\ mg' = st.mg /\ mc' = st.mc /\ vd' = st.vd
         /\ panic' = st.panic /\ fired' = st.fired
         /\ at' = a /\ ct' = c /\ syn' = sy /\ spa' = sp
         /\ blocks' = bl /\ lost' = lo /\ hist' = hi /\ budget' = bu
         /\ UNCHANGED <<pt, lk, lw, nfs>>

Running == panic = ""
S == spa.syncing_txg
Hist == [hist EXCEPT !.back = {}, !.condensed = NoMs]

\* The txgs callers may pass: the syncing txg while spa_sync is writing, and
\* the open and quiescing txgs after it.
OpTxgs == { t \in S .. (S + OpenTxgs) : t = S => spa.phase = "write" }
BirthPass(txg) == IF txg = S THEN spa.sync_pass ELSE 1
Unsynced(b) ==
    \/ b.birth > S
    \/ b.birth = S /\ spa.phase = "write" /\ b.pass = spa.sync_pass

Block(dvas, txg) == [dvas |-> dvas, birth |-> txg, pass |-> BirthPass(txg)]
DvaSet(dvas) == { dvas[i] : i \in 1 .. Len(dvas) }

\* What the allocating thread's step leaves in blocks.
AllocResult(a) ==
    IF a.pc = "idle" /\ a.ret = 0 THEN blocks \cup {Block(a.dva, a.txg)} ELSE blocks

\* The thread's frame is gone once metaslab_alloc has returned.
AllocReturn(a) ==
    IF a.pc = "idle" THEN [AtIdle EXCEPT !.ret = a.ret, !.d = a.d] ELSE a

AllocStep(r) ==
    Commit(r.st, AllocReturn(r.a), ct, syn, spa, AllocResult(r.a), lost, Hist, budget)

AllocBegin ==
    /\ Running /\ at.pc = "idle" /\ budget > 0
    /\ \E txg \in OpTxgs, ndvas \in 1 .. MaxDvas, psize \in PSizes :
          LET a == [AtIdle EXCEPT !.txg = txg, !.ndvas = ndvas, !.psize = psize]
          IN  Commit(Cur,
                     IF mc.mc_rotor = NoGroup THEN [a EXCEPT !.ret = ENOSPC]
                     ELSE DvaStart(Cur, a, 0),
                     ct, syn, spa, blocks, lost, Hist, budget - 1)

AllocGroup ==
    /\ Running /\ at.pc \in {"group", "select"}
    /\ AllocStep(AllocGroupStep(Cur, at))

AllocLocked ==
    /\ Running /\ at.pc = "lock"
    /\ \E r \in AllocLockedStep(Cur, at) : AllocStep(r)

AllocWake ==
    /\ Running /\ at.pc = "wait" /\ ~ms[at.msp].ms_loading
    /\ \E r \in AllocActivate(Cur, at) : AllocStep(r)

AllocLoaded ==
    /\ Running /\ at.pc = "loading"
    /\ \E error \in {0, EIO} : \E r \in AllocLoadedStep(Cur, at, error) : AllocStep(r)

AllocUndo ==
    /\ Running /\ at.pc = "undo"
    /\ AllocStep(AllocUndoStep(Cur, at))

\* What the claiming thread's step leaves in blocks and lost.
ClaimStep(r) ==
    LET c == r.c
        done == c.pc = "idle"
    IN  Commit(r.st, at, IF done THEN [CtIdle EXCEPT !.ret = c.ret] ELSE c, syn, spa,
               IF done /\ c.ret = 0 /\ c.txg # 0
               THEN blocks \cup {Block(c.dva, c.txg)} ELSE blocks,
               IF done /\ c.ret # 0
               THEN lost \cup DvaSet(SubSeq(c.dva, 1, c.claimed)) ELSE lost,
               Hist, budget)

ClaimBegin ==
    /\ Running /\ ct.pc = "idle" /\ budget > 0
    /\ \E bp \in ClaimBps, txg \in {0} \cup OpTxgs :
          Commit(Cur, at,
                 [CtIdle EXCEPT !.pc = "dva", !.txg = txg, !.dva = bp, !.d = 1],
                 syn, spa, blocks, lost, Hist, budget - 1)

ClaimDva ==
    /\ Running /\ ct.pc = "dva"
    /\ ClaimStep(ClaimDvaStep(Cur, ct))

ClaimWake ==
    /\ Running /\ ct.pc = "wait" /\ ~ms[ct.msp].ms_loading
    /\ \E r \in {ClaimActivate(Cur, ct)} : ClaimStep(r)

ClaimLoaded ==
    /\ Running /\ ct.pc = "loading"
    /\ \E error \in {0, EIO} : \E r \in {ClaimLoadedStep(Cur, ct, error)} : ClaimStep(r)

\* metaslab_free of a block a caller owns.
FreedBy(b, txg) ==
    { [dva |-> dv, txg |-> txg] : dv \in DvaSet(b.dvas) }
SameBy(b, txg) ==
    IF b.birth # txg THEN {}
    ELSE UNION { { [msp |-> DvaMs(Cur, dv), txg |-> txg, byte |-> x] :
                     x \in Range(dv.offset, dv.asize) } : dv \in DvaSet(b.dvas) }

Free ==
    /\ Running /\ budget > 0
    /\ \E b \in blocks, txg \in OpTxgs, now \in BOOLEAN :
          /\ txg >= b.birth
          /\ now => (txg = b.birth /\ Unsynced(b))
          /\ Commit(metaslab_free(Cur, b.dvas, 1, txg, now), at, ct, syn, spa,
                    blocks \ {b}, lost,
                    IF now THEN Hist
                    ELSE [Hist EXCEPT !.freed = @ \cup FreedBy(b, txg),
                                      !.same = @ \cup SameBy(b, txg)],
                    budget - 1)

\* vdev_sync's txg_list_add(&vd->vdev_ms_list, msp, TXG_CLEAN(txg)) once
\* metaslab_sync has returned (txg_list_remove took it off the txg's list).
Synced(st, k, txg) ==
    [st EXCEPT !.vd[k[1]].vdev_ms_list[Slot(txg)] = @ \ {k[2]},
               !.vd[k[1]].vdev_ms_list[Slot(TXG_CLEAN(txg))] = @ \cup {k[2]}]

SyncedHist(k, txg) ==
    [Hist EXCEPT !.same = { e \in @ : ~(e.msp = k /\ e.txg = txg) }]

\* vdev_sync: metaslab_sync of a metaslab dirty in the syncing txg.
Sync ==
    /\ Running /\ spa.phase = "vsync" /\ syn.msp = NoMs
    /\ \E k \in MsKeys :
          /\ k[2] \in vd[k[1]].vdev_ms_list[Slot(S)]
          /\ LET r == SyncWrite(Cur, k, S, spa.sync_pass)
             IN  IF r.how = "condense"
                 THEN Commit(r.st, at, ct, [msp |-> k, tree |-> r.tree], spa,
                             blocks, lost, Hist, budget)
                 ELSE IF r.how = "clean"
                 THEN Commit(Synced(r.st, k, S), at, ct, syn, spa,
                             blocks, lost, Hist, budget)
                 ELSE Commit(Synced(SyncTail(r.st, k, S, spa.sync_pass), k, S),
                             at, ct, syn, [spa EXCEPT !.dirty = TRUE],
                             blocks, lost, SyncedHist(k, S), budget)

\* metaslab_condense after space_map_truncate, and the rest of metaslab_sync.
CondenseFinish ==
    /\ Running /\ syn.msp # NoMs
    /\ LET k == syn.msp
           s1 == CondenseWrite(Cur, k, syn.tree)
       IN  Commit(Synced(SyncTail(s1, k, S, spa.sync_pass), k, S),
                  at, ct, NoSync, [spa EXCEPT !.dirty = TRUE],
                  blocks, lost, [SyncedHist(k, S) EXCEPT !.condensed = k], budget)

InFlight(txg) ==
    \/ at.pc # "idle" /\ at.txg = txg
    \/ ct.pc # "idle" /\ ct.txg = txg

\* spa_sync has issued this pass's writes and waits for them; vdev_sync is next.
WriteEnd ==
    /\ Running /\ spa.phase = "write" /\ ~InFlight(S)
    /\ Commit(Cur, at, ct, syn, [spa EXCEPT !.phase = "vsync"],
              blocks, lost, Hist, budget)

DirtyLeft == \E v \in Vdevs : vd[v].vdev_ms_list[Slot(S)] # {}
CleanLeft == \E v \in Vdevs : vd[v].vdev_ms_list[Slot(TXG_CLEAN(S))] # {}

\* spa_sync's loop: another pass when this one wrote a space map, which
\* dirtied the meta-objset.
NextPass ==
    /\ Running /\ spa.phase = "vsync" /\ syn.msp = NoMs /\ ~DirtyLeft
    /\ spa.dirty /\ spa.sync_pass < MaxPass
    /\ Commit(Cur, at, ct, syn,
              [spa EXCEPT !.phase = "write", !.sync_pass = @ + 1, !.dirty = FALSE],
              blocks, lost, Hist, budget)

\* The last pass is over: vdev_sync_done is next.
SyncEnd ==
    /\ Running /\ spa.phase = "vsync" /\ syn.msp = NoMs /\ ~DirtyLeft
    /\ ~spa.dirty \/ spa.sync_pass = MaxPass
    /\ Commit(Cur, at, ct, syn, [spa EXCEPT !.phase = "done", !.dirty = FALSE],
              blocks, lost, Hist, budget)

\* vdev_sync_done: metaslab_sync_done of a metaslab synced in this txg, which
\* first waits out a load in progress.
SyncDone ==
    /\ Running /\ spa.phase = "done"
    /\ \E k \in MsKeys :
          /\ k[2] \in vd[k[1]].vdev_ms_list[Slot(TXG_CLEAN(S))]
          /\ ~ms[k].ms_loading
          /\ LET s0 == [Cur EXCEPT !.vd[k[1]].vdev_ms_list[Slot(TXG_CLEAN(S))] = @ \ {k[2]}]
                 s1 == metaslab_sync_done(s0, k, S)
                 back == { f \in hist.freed : DvaMs(Cur, f.dva) = k /\ f.txg + TXG_DEFER_SIZE <= S }
             IN  Commit(s1, at, ct, syn, spa, blocks, lost,
                        [Hist EXCEPT !.back = back, !.freed = @ \ back,
                                     !.done[k] = S],
                        budget)

\* vdev_sync_done ends with metaslab_sync_reassess; then the next txg syncs.
TxgAdvance ==
    /\ Running /\ spa.phase = "done" /\ ~CleanLeft /\ S < LastTxg
    /\ LET s1 == metaslab_group_alloc_update(Cur, 0)
       IN  Commit(s1, at, ct, syn,
                  [syncing_txg |-> S + 1, sync_pass |-> 1, phase |-> "write",
                   dirty |-> FALSE,
                   spa_freeze_txg |-> spa.spa_freeze_txg],
                  blocks, lost, Hist, budget)

Next ==
    \/ AllocBegin \/ AllocGroup \/ AllocLocked \/ AllocWake \/ AllocLoaded \/ AllocUndo
    \/ ClaimBegin \/ ClaimDva \/ ClaimWake \/ ClaimLoaded
    \/ Free
    \/ WriteEnd \/ Sync \/ CondenseFinish \/ NextPass \/ SyncEnd \/ SyncDone \/ TxgAdvance

Spec == Init /\ [][Next]_vars

TypeOK ==
    /\ panic \in STRING
    /\ budget \in 0 .. MaxOps
    /\ S \in TXG_INITIAL .. LastTxg

(***************************************************************************)
(* Properties.                                                             *)
(***************************************************************************)
Bytes(dva) == Range(dva.offset, dva.asize)
Overlap(d1, d2) == d1.vdev = d2.vdev /\ Bytes(d1) \cap Bytes(d2) # {}

\* Every copy that is allocated now: the DVAs of the blocks callers own,
\* those the call in progress has allocated or claimed so far, and those a
\* failed claim left claimed.  Each is tagged with its owner and position.
Held ==
    UNION { { [own |-> b, i |-> i, dva |-> b.dvas[i]] : i \in 1 .. Len(b.dvas) }
            : b \in blocks }
    \cup (IF at.pc = "idle" THEN {}
          ELSE { [own |-> "alloc", i |-> i, dva |-> at.dva[i]] : i \in 1 .. Len(at.dva) })
    \cup (IF ct.pc = "idle" THEN {}
          ELSE { [own |-> "claim", i |-> i, dva |-> ct.dva[i]] : i \in 1 .. ct.claimed })
    \cup { [own |-> "lost", i |-> 0, dva |-> dv] : dv \in lost }

\* C1: no two copies that are allocated (returned by metaslab_alloc or
\* accepted by metaslab_claim, and not freed) overlap on the same vdev, and
\* no range is ever inserted into a metaslab's alloc[txg & 3] tree while the
\* tree already holds part of it (range_tree_add would panic).
C1_NoOverlap ==
    /\ \A h1, h2 \in Held : h1 # h2 => ~Overlap(h1.dva, h2.dva)
    /\ panic # "range_tree_add(ms_alloctree): segment overlaps"

\* A claim in progress has claimed a copy in a metaslab in which a caller
\* owns an allocated block.
C1_Witness ==
    /\ ct.pc # "idle" /\ ct.claimed >= 1
    /\ \E b \in blocks : \E dv \in DvaSet(b.dvas) :
          DvaMs(Cur, dv) = DvaMs(Cur, ct.dva[1]) /\ b.birth = ct.txg

\* C2: a range freed with now = false in txg T (hist.freed holds it until
\* metaslab_sync_done(T + 2) has run on its metaslab) is not in the
\* metaslab's free tree and overlaps no copy that is allocated.
C2_DeferredNotFree ==
    \A f \in hist.freed :
        /\ Bytes(f.dva) \cap ms[DvaMs(Cur, f.dva)].ms_tree = {}
        /\ \A h \in Held : ~Overlap(h.dva, f.dva)

\* The metaslab was unloaded and has been loaded again while the freed range
\* sat in a defer tree: loaded by a claim (no allocation has touched it, so
\* ms_access_txg is 0 and the sync_done that deferred the range unloaded it).
C2_Witness ==
    \E f \in hist.freed :
        LET msp == ms[DvaMs(Cur, f.dva)]
        IN  /\ msp.ms_loaded /\ msp.ms_access_txg = 0
            /\ \E t \in 0 .. (TXG_DEFER_SIZE - 1) : Bytes(f.dva) \subseteq msp.ms_defertree[t]

AllFreeTrees(msp) ==
    UNION { msp.ms_freetree[t] : t \in 0 .. (TXG_SIZE - 1) }
    \cup UNION { msp.ms_defertree[t] : t \in 0 .. (TXG_DEFER_SIZE - 1) }

OnSyncLists(k) ==
    \/ \E t \in {TXG_CLEAN(S), S, S + 1} : k[2] \in vd[k[1]].vdev_ms_list[Slot(t)]
    \/ syn.msp = k

\* C3: when metaslab_sync_done(T + 2) returns (hist.back holds the ranges
\* freed in T it has just processed) such a range is in no free, freed or
\* defer tree and, if the metaslab is loaded, is back in the free tree; and a
\* metaslab with deferred space is always on a txg list of the syncing
\* thread, so that its sync_done runs again.
C3_DeferredReturns ==
    /\ \A f \in hist.back :
          LET msp == ms[DvaMs(Cur, f.dva)]
          IN  /\ Bytes(f.dva) \cap AllFreeTrees(msp) = {}
              /\ msp.ms_loaded => Bytes(f.dva) \subseteq msp.ms_tree
    /\ \A k \in MsKeys : ms[k].ms_deferspace # 0 => OnSyncLists(k)

\* sync_done(T + 2) has just returned a deferred range to a loaded metaslab.
C3_Witness ==
    \E f \in hist.back :
        /\ ms[DvaMs(Cur, f.dva)].ms_loaded
        /\ S = f.txg + TXG_DEFER_SIZE

\* C4: metaslab_block_alloc is never executed with ms_condensing set (its
\* VERIFY never fires), and a step of the allocating thread that holds the
\* lock of a condensing metaslab allocates nothing: it picks again, with the
\* copies it has, the free tree and the alloc trees as they were.
C4_Step ==
    /\ panic' # "metaslab_block_alloc: VERIFY(!msp->ms_condensing)"
    /\ (at.pc \in {"lock", "wait", "loading"} /\ at' # at /\ ms[at.msp].ms_condensing)
       => /\ at'.pc = "select"
          /\ at'.dva = at.dva
          /\ ms'[at.msp].ms_tree = ms[at.msp].ms_tree
          /\ ms'[at.msp].ms_alloctree = ms[at.msp].ms_alloctree

C4_NoAllocWhileCondensing == [][C4_Step]_vars

\* The allocating thread found its metaslab condensing and is picking again
\* while the syncing thread is still inside metaslab_condense.
C4_Witness ==
    /\ at.pc = "select" /\ at.msp # NoMs
    /\ syn.msp = at.msp /\ ms[at.msp].ms_condensing

\* C5: each iteration of metaslab_alloc's undo loop takes the last copy the
\* call allocated out of alloc[txg & 3] and puts it back in its metaslab's
\* free tree, touching no free or defer tree and dropping its DVA; after the
\* last one the call returns its error and the caller gets no block.  A call
\* that returns 0 hands the caller a block of all ndvas copies.
C5_Step ==
    /\ (at.pc = "undo" /\ at' # at)
       => LET dv == at.dva[at.got]
              k == DvaMs(Cur, dv)
              slot == Slot(at.txg)
          IN  /\ at.error # 0 /\ at.got = Len(at.dva)
              /\ Bytes(dv) \subseteq ms[k].ms_alloctree[slot]
              /\ Bytes(dv) \cap ms[k].ms_tree = {}
              /\ \A j \in MsKeys :
                    /\ ms'[j].ms_alloctree[slot] =
                          ms[j].ms_alloctree[slot] \ (IF j = k THEN Bytes(dv) ELSE {})
                    /\ ms'[j].ms_tree = ms[j].ms_tree \cup (IF j = k THEN Bytes(dv) ELSE {})
                    /\ ms'[j].ms_freetree = ms[j].ms_freetree
                    /\ ms'[j].ms_defertree = ms[j].ms_defertree
              /\ blocks' = blocks
              /\ IF at.got = 1
                 THEN at'.pc = "idle" /\ at'.ret = at.error
                 ELSE at'.pc = "undo" /\ at'.got = at.got - 1
                      /\ at'.dva = SubSeq(at.dva, 1, at.got - 1)
    /\ (at.pc # "idle" /\ at'.pc = "idle" /\ at'.ret = 0)
       => \E b \in blocks' \ blocks : Len(b.dvas) = at.ndvas /\ b.birth = at.txg
    /\ (at.pc # "idle" /\ at'.pc = "idle" /\ at'.ret # 0)
       => blocks' = blocks /\ (at.pc = "undo" \/ at.dva = <<>>)

C6_AllOrNone ==
    /\ lost = {}
    /\ "metaslab_claim: ASSERT(error == 0 || txg == 0)" \notin fired

\* The dry run's frame: it removes nothing from a free tree (a load may fill
\* the tree of a metaslab that was not loaded) and changes no alloc, free or
\* defer tree.
DryRunStep == ct.pc # "idle" /\ ct.cur = 0 /\ ct' # ct
DryRunFrame ==
    \A k \in MsKeys :
        /\ ms[k].ms_tree \subseteq ms'[k].ms_tree
        /\ ms[k].ms_loaded => ms'[k].ms_tree = ms[k].ms_tree
        /\ ms'[k].ms_alloctree = ms[k].ms_alloctree
        /\ ms'[k].ms_freetree = ms[k].ms_freetree
        /\ ms'[k].ms_defertree = ms[k].ms_defertree
\* The dry run returns in this step, with DryRunRet.
DryRunDone == ct'.pc = "idle" \/ ct'.cur # 0
DryRunRet == IF ct'.pc = "idle" THEN ct'.ret ELSE 0
\* The DVA the step looked at lies wholly in its metaslab's free tree.
DryRunFound ==
    LET dv == ct.dva[ct.d]
    IN  Bytes(dv) \subseteq ms'[DvaMs(Cur, dv)].ms_tree

\* The dry run returns ENXIO for a DVA naming a missing vdev or an offset
\* beyond the last metaslab, ENOENT for a range not wholly in its
\* metaslab's free tree, and 0 otherwise; it changes no tree.
C7_DryRunStep ==
    DryRunStep =>
        /\ DryRunFrame
        /\ DryRunDone =>
              LET bad == DvaBad(Cur, ct.dva[ct.d])
              IN  /\ DryRunRet \in {0, ENOENT, ENXIO}
                  /\ DryRunRet = ENXIO <=> bad
                  /\ DryRunRet = ENOENT <=> (~bad /\ ~DryRunFound)

C7_DryRunOriginal == [][C7_DryRunStep]_vars

\* C7: the dry run of metaslab_claim returns ENXIO for a DVA naming a
\* missing vdev or an offset beyond the last metaslab; otherwise EIO when
\* the metaslab could not be loaded; otherwise ENOENT when the range is not
\* wholly in the metaslab's free tree; and 0 otherwise.  In every case it
\* removes nothing from a free tree and changes no alloc, free or defer tree.
C7_Step ==
    DryRunStep =>
        /\ DryRunFrame
        /\ DryRunDone =>
              LET dv == ct.dva[ct.d]
                  bad == DvaBad(Cur, dv)
                  failed == ~bad /\ ~ms'[DvaMs(Cur, dv)].ms_loaded
              IN  /\ DryRunRet \in {0, ENOENT, ENXIO, EIO}
                  /\ DryRunRet = ENXIO <=> bad
                  /\ DryRunRet = EIO <=> failed
                  /\ DryRunRet = ENOENT <=> (~bad /\ ~failed /\ ~DryRunFound)

C7_DryRun == [][C7_Step]_vars

\* The dry run has found the first DVA of a block in a metaslab it loaded
\* and activated, and is about to look at the second.
C7_Witness ==
    /\ ct.pc = "dva" /\ ct.cur = 0 /\ ct.d = 2
    /\ LET k == DvaMs(Cur, ct.dva[1])
       IN  ms[k].ms_loaded /\ HasSecondary(ms[k].ms_weight)
           /\ Bytes(ct.dva[1]) \subseteq ms[k].ms_tree

(***************************************************************************)
(* The allocation strategies on their own: one loaded metaslab whose free  *)
(* tree is any set of whole sectors, served by any of the four strategies; *)
(* metaslab_block_alloc is applied for any sector-aligned size, and the    *)
(* ranges it returned are added back (metaslab_free_dva with now set, or   *)
(* the return from the defer ring).                                        *)
(***************************************************************************)
K0 == <<0, 0>>
Sectors == 0 .. (2^(MsShift - Ashift) - 1)

AllocInit ==
    \E ops \in Strategies, X \in SUBSET Sectors :
        LET st == Created(ops)
            tree == UNION { Range(st.ms[K0].ms_start + x * 2^Ashift, 2^Ashift) : x \in X }
        IN  /\ ms = [st.ms EXCEPT ![K0].ms_loaded = TRUE, ![K0].ms_tree = tree,
                                  ![K0].ms_size_tree = SizeTreeAddAll({}, {}, tree)]
            /\ mg = st.mg /\ mc = st.mc /\ vd = st.vd
            /\ panic = st.panic /\ fired = st.fired
            /\ spa = [syncing_txg |-> TXG_INITIAL, sync_pass |-> 1, phase |-> "write",
                     dirty |-> FALSE, spa_freeze_txg |-> UINT64_MAX]
            /\ at = AtIdle /\ ct = CtIdle /\ syn = NoSync
            /\ blocks = {} /\ lost = {} /\ hist = NoHist /\ budget = MaxOps /\ pt = PtIdle /\ lk = LkIdle /\ lw = LwIdle /\ nfs = NfsIdle

BlockAlloc ==
    /\ Running
    /\ \E x \in Sectors : \E r \in metaslab_block_alloc(Cur, K0, (x + 1) * 2^Ashift) :
          LET size == (x + 1) * 2^Ashift
          IN  Commit(r.st, [AtIdle EXCEPT !.ret = r.start, !.asize = size],
                     ct, syn, spa,
                     IF r.start = NoOffset THEN blocks
                     ELSE blocks \cup {Block(<<Dva(K0[1], r.start, size)>>, S)},
                     lost, hist, budget)

BlockFree ==
    /\ Running
    /\ \E b \in blocks :
          Commit(TreeAdd(Cur, K0, b.dvas[1].offset, b.dvas[1].asize),
                 at, ct, syn, spa, blocks \ {b}, lost, hist, budget)

AllocNext == BlockAlloc \/ BlockFree

SpecAlloc == AllocInit /\ [][AllocNext]_vars

\* C8: every offset metaslab_block_alloc returns and every size allocated
\* are multiples of 1 << vdev_ashift, whichever strategy serves the
\* metaslab, and its VERIFY0(P2PHASE(...)) checks never fire.
C8_Aligned ==
    LET sector == 2^vd[K0[1]].vdev_ashift
    IN  /\ panic \notin {"metaslab_block_alloc: VERIFY0(P2PHASE(start, 1 << ashift))",
                         "metaslab_block_alloc: VERIFY0(P2PHASE(size, 1 << ashift))"}
        /\ at.ret # NoOffset => P2PHASE(at.ret, sector) = 0 /\ P2PHASE(at.asize, sector) = 0
        /\ \A b \in blocks : \A dv \in DvaSet(b.dvas) :
              P2PHASE(dv.offset, sector) = 0 /\ P2PHASE(dv.asize, sector) = 0

\* The cursor fit has returned a range from inside a fragmented free tree
\* while an earlier range is still allocated.
C8_Witness ==
    /\ ms[K0].ms_ops = "cf" /\ at.ret > 0 /\ at.asize > 2^Ashift
    /\ Cardinality(blocks) >= 2

\* C9: the ASSERT0 checks at the start of metaslab_sync_done never fire, and
\* once spa_sync's passes are over the alloc and free trees of the syncing
\* txg are empty in every metaslab whose sync_done is still to run.
C9_SyncedEmpty ==
    /\ "metaslab_sync_done: ASSERT0(range_tree_space(ms_alloctree[txg & TXG_MASK]))"
           \notin fired
    /\ "metaslab_sync_done: ASSERT0(range_tree_space(ms_freetree[txg & TXG_MASK]))"
           \notin fired
    /\ spa.phase = "done" =>
          \A k \in MsKeys :
              /\ ms[k].ms_alloctree[Slot(S)] = {}
              /\ ms[k].ms_freetree[Slot(S)] = {}

\* metaslab_sync_done has run for a txg in which the metaslab's allocations
\* were written to its space map.
C9_Witness ==
    \E k \in MsKeys :
        /\ hist.done[k] >= TXG_INITIAL
        /\ ms[k].ms_sm.open /\ ms[k].ms_sm.sm_length > 0

\* alloc[t & 3] and free[t & 3] of a metaslab never hold a common byte.
C10_Disjoint ==
    \A k \in MsKeys : \A t \in 0 .. (TXG_SIZE - 1) :
        ms[k].ms_alloctree[t] \cap ms[k].ms_freetree[t] = {}

\* C10: the only bytes alloc[t & 3] and free[t & 3] of a metaslab have in
\* common are those of blocks allocated in txg t and freed with now = false
\* in the same txg, until metaslab_sync(t) has written both trees.
C10_DisjointButSameTxg ==
    \A k \in MsKeys : \A t \in 0 .. (TXG_SIZE - 1) :
        ms[k].ms_alloctree[t] \cap ms[k].ms_freetree[t] \subseteq
            { e.byte : e \in { f \in hist.same : f.msp = k /\ Slot(f.txg) = t } }

\* A block was freed with now = false in the txg that allocated it, and the
\* metaslab has not been synced since.
C10_Witness ==
    \E e \in hist.same :
        e.byte \in ms[e.msp].ms_alloctree[Slot(e.txg)] \cap ms[e.msp].ms_freetree[Slot(e.txg)]

\* Bytes of a metaslab that are in neither its free tree nor the allocated
\* count the space map has written: those of the alloc trees (not yet
\* written), of the freed tree (written as free, not yet deferred) and of
\* the defer trees.
Staged(msp) ==
    LET Sum(f, n) == LET RECURSIVE Go(_)
                         Go(t) == IF t = n THEN 0 ELSE range_tree_space(f[t]) + Go(t + 1)
                     IN  Go(0)
    IN  Sum(msp.ms_alloctree, TXG_SIZE) + Sum(msp.ms_defertree, TXG_DEFER_SIZE)
        + range_tree_space(msp.ms_freetree[Slot(TXG_CLEAN(S))])

\* The free tree plus the space map's allocated bytes make up the metaslab,
\* for every loaded metaslab.
C11_FreePlusAllocated ==
    \A k \in MsKeys :
        (ms[k].ms_loaded /\ ~ms[k].ms_loading) =>
            range_tree_space(ms[k].ms_tree) + space_map_allocated(ms[k].ms_sm)
                = ms[k].ms_size

\* C11: for every loaded metaslab, the bytes of its free tree, the allocated
\* bytes the space map has cached (space_map_allocated) and has written
\* since (space_map_alloc_delta), and the bytes staged in the alloc trees,
\* the freed tree and the defer trees add up to the metaslab size.
C11_SpaceIdentity ==
    \A k \in MsKeys :
        (ms[k].ms_loaded /\ ~ms[k].ms_loading) =>
            range_tree_space(ms[k].ms_tree) + space_map_allocated(ms[k].ms_sm)
                + space_map_alloc_delta(ms[k].ms_sm) + Staged(ms[k])
                = ms[k].ms_size

\* A loaded metaslab holds an allocation not yet synced and a deferred free.
C11_Witness ==
    \E k \in MsKeys :
        /\ ms[k].ms_loaded /\ ms[k].ms_sm.open
        /\ \E t \in 0 .. (TXG_SIZE - 1) : ms[k].ms_alloctree[t] # {}
        /\ \E t \in 0 .. (TXG_DEFER_SIZE - 1) : ms[k].ms_defertree[t] # {}

\* Sums over the metaslabs of the class and over the copies held.
RECURSIVE SumOver(_, _)
SumOver(set, f) ==
    IF set = {} THEN 0
    ELSE LET x == CHOOSE y \in set : TRUE
         IN  f[x] + SumOver(set \ {x}, f)

DeferBytes(k) ==
    SumOver(0 .. (TXG_DEFER_SIZE - 1),
            [t \in 0 .. (TXG_DEFER_SIZE - 1) |-> range_tree_space(ms[k].ms_defertree[t])])
ClassDefer == SumOver(MsKeys, [k \in MsKeys |-> DeferBytes(k)])
ClassAllocated == SumOver(MsKeys, [k \in MsKeys |-> space_map_allocated(ms[k].ms_sm)])
\* Bytes allocated or claimed and not freed.
HeldBytes == SumOver(Held, [h \in Held |-> h.dva.asize])

\* Every call has returned and every metaslab_sync_done of the txg has run,
\* with nothing staged for a later txg.
AllSyncDone ==
    /\ spa.phase = "done" /\ ~CleanLeft /\ at.pc = "idle" /\ ct.pc = "idle"
    /\ \A k \in MsKeys : \A t \in 0 .. (TXG_SIZE - 1) :
          ms[k].ms_alloctree[t] = {} /\ ms[k].ms_freetree[t] = {}

\* After metaslab_sync_done, mc_alloc is the bytes allocated minus the bytes
\* freed minus the bytes held in defer trees.
C12_MinusDefer ==
    AllSyncDone => mc.mc_alloc = HeldBytes - ClassDefer

\* C12: mc_alloc is the allocated bytes the space maps have cached plus the
\* bytes held in defer trees, and mc_deferred is the latter; once every
\* allocation and free has been through metaslab_sync_done, mc_alloc is the
\* bytes allocated and not freed plus the bytes held in defer trees.
C12_Conservation ==
    /\ mc.mc_alloc = ClassAllocated + ClassDefer
    /\ mc.mc_deferred = ClassDefer
    /\ \A k \in MsKeys : ms[k].ms_deferspace = DeferBytes(k)
    /\ AllSyncDone => mc.mc_alloc = HeldBytes + ClassDefer

\* Every metaslab_sync_done has run, a caller holds a block and a freed
\* block sits in a defer tree.
C12_Witness ==
    AllSyncDone /\ HeldBytes > 0 /\ ClassDefer > 0

\* What space_map_load makes of the whole log of a metaslab's space map in
\* a fresh metaslab, which has no defer trees to subtract.
FreshLoad(k) ==
    Replay(ms[k].ms_sm.log, 1, Len(ms[k].ms_sm.log),
           [rt |-> Range(ms[k].ms_start, ms[k].ms_size), ok |-> TRUE])

\* Loading the space map a condense has rewritten yields the free tree the
\* metaslab holds in core (the condense leaves it as it was).
C13_SameFreeTree ==
    hist.condensed # NoMs =>
        FreshLoad(hist.condensed).ok
        /\ FreshLoad(hist.condensed).rt = ms[hist.condensed].ms_tree

\* C13: loading the space map a condense has rewritten yields the in-core
\* free tree together with the ranges the condense left out of its condense
\* tree: those freed in the syncing txg (now the freed tree), those of the
\* defer trees and those allocated in the txgs after the syncing one.
C13_CondensePreserves ==
    hist.condensed # NoMs =>
        LET k == hist.condensed
            later == UNION { ms[k].ms_alloctree[Slot(S + t)] :
                               t \in 1 .. (TXG_CONCURRENT_STATES - 1) }
            defer == UNION { ms[k].ms_defertree[t] : t \in 0 .. (TXG_DEFER_SIZE - 1) }
            freed == ms[k].ms_freetree[Slot(TXG_CLEAN(S))]
        IN  /\ FreshLoad(k).ok
            /\ FreshLoad(k).rt = ms[k].ms_tree \cup freed \cup defer \cup later
            /\ ms[k].ms_tree \cap (freed \cup defer \cup later) = {}

\* A metaslab with a range freed in the syncing txg has just been condensed.
C13_Witness ==
    /\ hist.condensed # NoMs
    /\ ms[hist.condensed].ms_freetree[Slot(TXG_CLEAN(S))] # {}
    /\ ms[hist.condensed].ms_tree # {}


(***************************************************************************)
(* metaslab_alloc on its own: one thread allocating from a pool whose      *)
(* metaslabs were filled long ago and are unloaded; the free space of each *)
(* is any set of whole sectors and the class uses any of the strategies.   *)
(* A thread that is inside metaslab_alloc keeps running (weak fairness of  *)
(* its steps); nothing else runs.                                          *)
(***************************************************************************)
TermCalls == 1
TermSizes == {2^Ashift, 2 * 2^Ashift, 2^MsShift}

\* Metaslab k as metaslab_sync and metaslab_sync_done leave it once the
\* sectors outside free have been claimed and synced: the space map holds
\* the allocations, the vdev and class count them, the weight is recomputed.
Settle(st, k, free) ==
    LET msp == st.ms[k]
        used == Range(msp.ms_start, msp.ms_size) \ free
        sm == IF used = {} THEN NoSm
              ELSE space_map_update(space_map_write(space_map_open, used, "A",
                                                    st.vd[k[1]].vdev_ashift))
        s1 == [st EXCEPT !.ms[k].ms_sm = sm]
        s2 == vdev_space_update(s1, k[1], range_tree_space(used), 0, 0)
    IN  metaslab_group_sort(s2, k, metaslab_weight(s2, k))

RECURSIVE SettleAll(_, _, _, _)
SettleAll(st, v, X, i) ==
    IF i = MsCount THEN metaslab_group_alloc_update(st, v)
    ELSE LET k == <<v, i>>
             free == UNION { Range(st.ms[k].ms_start + x * 2^Ashift, 2^Ashift) : x \in X[i] }
         IN  SettleAll(Settle(st, k, free), v, X, i + 1)

TermInit ==
    \E ops \in Strategies, X \in [0 .. (MsCount - 1) -> SUBSET Sectors] :
        LET s0 == Created(ops)
            s1 == [s0 EXCEPT !.vd[0].vdev_ms_list = [t \in 0 .. (TXG_SIZE - 1) |-> {}]]
            st == SettleAll(s1, 0, X, 0)
        IN  /\ ms = st.ms /\ mg = st.mg /\ mc = st.mc /\ vd = st.vd
            /\ panic = st.panic /\ fired = {}
            /\ spa = [syncing_txg |-> TXG_INITIAL, sync_pass |-> 1, phase |-> "write",
                     dirty |-> FALSE, spa_freeze_txg |-> UINT64_MAX]
            /\ at = AtIdle /\ ct = CtIdle /\ syn = NoSync
            /\ blocks = {} /\ lost = {} /\ hist = NoHist /\ budget = TermCalls /\ pt = PtIdle /\ lk = LkIdle /\ lw = LwIdle /\ nfs = NfsIdle

\* A caller enters metaslab_alloc.
TermBegin ==
    /\ Running /\ at.pc = "idle" /\ budget > 0
    /\ \E txg \in OpTxgs, ndvas \in 1 .. MaxDvas, psize \in TermSizes :
          LET a == [AtIdle EXCEPT !.txg = txg, !.ndvas = ndvas, !.psize = psize]
          IN  Commit(Cur, DvaStart(Cur, a, 0), ct, syn, spa, blocks, lost, Hist,
                     budget - 1)

TermRun == AllocGroup \/ AllocLocked \/ AllocLoaded \/ AllocUndo

TermNext == TermBegin \/ AllocGroup \/ AllocLocked \/ AllocLoaded \/ AllocUndo

SpecTerm == TermInit /\ [][TermNext]_vars /\ WF_vars(TermRun)

\* C14: every metaslab_alloc call terminates: a thread that has entered
\* metaslab_alloc eventually returns from it (with an offset or ENOSPC), or
\* the system has panicked, whatever the strategy and the free space.
C14_Terminates == (at.pc # "idle") ~> (at.pc = "idle" \/ ~Running)


(***************************************************************************)
(* metaslab_free on its own: a pool whose metaslabs hold synced blocks,    *)
(* one per allocated sector, and which spa_freeze() may have frozen a few  *)
(* txgs ago.  The callers free those blocks, or a block pointer whose DVA  *)
(* names no vdev or lies beyond the vdev's last metaslab; hist keeps the   *)
(* last call's arguments and the metaslabs as they were before it.         *)
(***************************************************************************)
FreeCalls == 2
BadDvas == { Dva(1, 0, 2^Ashift), Dva(0, MsCount * 2^MsShift, 2^Ashift) }
NoCall == [dva |-> ZeroDva, txg |-> 0, now |-> FALSE, ms |-> <<>>, freeze |-> 0]

FreeInit ==
    \E X0 \in SUBSET Sectors, frozen \in {UINT64_MAX, TXG_INITIAL, TXG_INITIAL + 1} :
        LET s0 == Created(zfs_metaslab_ops)
            s1 == [s0 EXCEPT !.vd[0].vdev_ms_list = [t \in 0 .. (TXG_SIZE - 1) |-> {}]]
            st == SettleAll(s1, 0, [i \in 0 .. (MsCount - 1) |-> X0], 0)
            used == { k[2] * 2^MsShift + x * 2^Ashift : k \in MsKeys, x \in Sectors \ X0 }
        IN  /\ ms = st.ms /\ mg = st.mg /\ mc = st.mc /\ vd = st.vd
            /\ panic = st.panic /\ fired = {}
            /\ spa = [syncing_txg |-> TXG_INITIAL, sync_pass |-> 1, phase |-> "write",
                      dirty |-> FALSE, spa_freeze_txg |-> frozen]
            /\ at = AtIdle /\ ct = CtIdle /\ syn = NoSync
            /\ blocks = { [dvas |-> <<Dva(0, off, 2^Ashift)>>,
                           birth |-> TXG_INITIAL - 1, pass |-> 1] : off \in used }
            /\ lost = {} /\ hist = NoCall /\ budget = FreeCalls /\ pt = PtIdle /\ lk = LkIdle /\ lw = LwIdle /\ nfs = NfsIdle

\* metaslab_free(spa, bp, txg, now) of a one-copy block; now is only passed
\* for a block born in txg, which no block of this pool is.
FreeBp ==
    /\ Running /\ budget > 0
    /\ \E dva \in { b.dvas[1] : b \in blocks } \cup BadDvas,
          txg \in S .. (S + TXG_CONCURRENT_STATES - 1), now \in BOOLEAN :
          /\ IF DvaBad(Cur, dva) THEN TRUE
             ELSE IF txg > spa.spa_freeze_txg THEN TRUE ELSE ~now
          /\ Commit(metaslab_free(Cur, <<dva>>, 1, txg, now), at, ct, syn, spa,
                    { b \in blocks : b.dvas[1] # dva }, lost,
                    [dva |-> dva, txg |-> txg, now |-> now, ms |-> ms,
                     freeze |-> spa.spa_freeze_txg],
                    budget - 1)

FreeNext == FreeBp

SpecFree == FreeInit /\ [][FreeNext]_vars

AllTrees(msp) == <<msp.ms_tree, msp.ms_alloctree, msp.ms_freetree, msp.ms_defertree>>

GroupCount == 2
Groups == 0 .. (GroupCount - 1)
RotorCount == 3
\* How far below zero callers may take a group's activation count, and how
\* far above the number of groups lost updates may take mc_alloc_groups.
MaxPassive == 1
MaxDrift == 1

RECURSIVE InitVdevs(_, _)
InitVdevs(st, V) ==
    IF V = {} THEN st
    ELSE LET v == CHOOSE x \in V : \A y \in V : x <= y
         IN  CHOOSE r \in { InitVdevs(s, V \ {v}) : s \in {InitMetaslabs(st, v, 0)} } :
                 TRUE

\* vdev_metaslab_init of every top-level vdev in V; no group is active yet.
Built(V, ops) ==
    InitVdevs([ms |-> [k \in V \X (0 .. (MsCount - 1)) |-> NewMetaslab(k[2], ops)],
               mg |-> [v \in V |-> NewGroup],
               mc |-> NewClass,
               vd |-> [v \in V |-> NewVdev],
               panic |-> "", fired |-> {}, spa_freeze_txg |-> UINT64_MAX], V)

\* A metaslab_group_passivate that leaves the rotor on the departing group.
metaslab_group_passivate_stale(st, v) ==
    LET s1 == [st EXCEPT !.mg[v].mg_activation_count = @ - 1]
        mgprev == st.mg[v].mg_prev
        mgnext == st.mg[v].mg_next
        s2 == IF mgnext = v THEN [s1 EXCEPT !.mc.mc_rotor = NoGroup]
              ELSE [[s1 EXCEPT !.mg[mgprev].mg_next = mgnext]
                        EXCEPT !.mg[mgnext].mg_prev = mgprev]
    IN  IF s1.mg[v].mg_activation_count # 0 THEN s1
        ELSE [s2 EXCEPT !.mg[v].mg_prev = NoGroup, !.mg[v].mg_next = NoGroup]

metaslab_group_passivate(st, v) ==
    LET s1 == [st EXCEPT !.mg[v].mg_activation_count = @ - 1]
        mgprev == st.mg[v].mg_prev
        mgnext == st.mg[v].mg_next
        s2 == IF mgnext = v THEN [s1 EXCEPT !.mc.mc_rotor = NoGroup]
              ELSE [[[s1 EXCEPT !.mc.mc_rotor = mgnext]
                         EXCEPT !.mg[mgprev].mg_next = mgnext]
                         EXCEPT !.mg[mgnext].mg_prev = mgprev]
        a1 == Check(s1, st.mc.mc_rotor # v,
                    "metaslab_group_passivate: ASSERT(mc->mc_rotor != mg)")
        a2 == Check(a1, st.mg[v].mg_prev = NoGroup /\ st.mg[v].mg_next = NoGroup,
                    "metaslab_group_passivate: ASSERT(mg->mg_prev == NULL)")
        a3 == Check(a2, s1.mg[v].mg_activation_count < 0,
                    "metaslab_group_passivate: ASSERT(mg->mg_activation_count < 0)")
    IN  IF s1.mg[v].mg_activation_count # 0 THEN a3
        ELSE [s2 EXCEPT !.mg[v].mg_prev = NoGroup, !.mg[v].mg_next = NoGroup]

\* metaslab_group_alloc_update up to the point where it has decided how
\* mc_alloc_groups changes: the state, and the value it is about to write
\* (NoOffset when the group's allocatable flag did not change).
AllocUpdateRead(st, v) ==
    LET vs == st.vd[v]
        cap == ((vs.vs_space - vs.vs_alloc) * 100) \div (vs.vs_space + 1)
        now == cap > zfs_mg_noalloc_threshold
        was == st.mg[v].mg_allocatable
    IN  [st |-> [st EXCEPT !.mg[v].mg_free_capacity = cap,
                           !.mg[v].mg_allocatable = now],
         write |-> IF was /\ ~now THEN st.mc.mc_alloc_groups - 1
                   ELSE IF ~was /\ now THEN st.mc.mc_alloc_groups + 1
                   ELSE NoOffset]

\* The pool once vdev_metaslab_init has run for vdevs 0 .. n-1.
GroupsBuilt(n) ==
    \E ops \in {zfs_metaslab_ops} :
        LET st == Built(0 .. (n - 1), ops)
        IN  /\ ms = st.ms /\ mg = st.mg /\ mc = st.mc /\ vd = st.vd
            /\ panic = st.panic /\ fired = {}
            /\ spa = [syncing_txg |-> TXG_INITIAL, sync_pass |-> 1, phase |-> "write",
                      dirty |-> FALSE, spa_freeze_txg |-> UINT64_MAX]
            /\ at = AtIdle /\ ct = CtIdle
            /\ syn = [v \in 0 .. (n - 1) |-> NoOffset]
            /\ blocks = {} /\ lost = {} /\ hist = NoHist /\ budget = MaxOps /\ pt = PtIdle /\ lk = LkIdle /\ lw = LwIdle /\ nfs = NfsIdle

GroupsInit == GroupsBuilt(GroupCount)

Reassessing == \E v \in DOMAIN mg : syn[v] # NoOffset

\* metaslab_group_activate(mg); its callers pass a group that is not active.
GroupActivate ==
    /\ Running /\ ~Reassessing /\ at.pc = "idle"
    /\ \E v \in DOMAIN mg :
          /\ mg[v].mg_activation_count <= 0
          /\ metaslab_group_activate(Cur, v).mc.mc_alloc_groups
                 \in 0 .. (Cardinality(DOMAIN mg) + MaxDrift)
          /\ Commit(metaslab_group_activate(Cur, v), at, ct, syn, spa, blocks, lost,
                    hist, budget)

\* metaslab_group_passivate(mg), of an active group or of one already passive.
GroupPassivate ==
    /\ Running /\ ~Reassessing /\ at.pc = "idle"
    /\ \E v \in DOMAIN mg :
          /\ mg[v].mg_activation_count > -MaxPassive
          /\ Commit(metaslab_group_passivate(Cur, v), at, ct, syn, spa, blocks, lost,
                    hist, budget)

\* vdev_space_update from metaslab_sync_done: the vdev fills up or empties.
GroupFill ==
    /\ Running
    /\ \E v \in DOMAIN mg : \E alloc \in {0, vd[v].vs_space} :
          /\ alloc # vd[v].vs_alloc
          /\ Commit(vdev_space_update(Cur, v, alloc - vd[v].vs_alloc, 0, 0),
                    at, ct, syn, spa, blocks, lost, hist, budget)

\* metaslab_sync_reassess(mg) up to the update of mc_alloc_groups.
ReassessBegin ==
    /\ Running
    /\ \E v \in DOMAIN mg :
          /\ syn[v] = NoOffset
          /\ AllocUpdateRead(Cur, v).write \in {NoOffset} \cup (0 .. (Cardinality(DOMAIN mg) + MaxDrift))
          /\ LET r == AllocUpdateRead(Cur, v)
             IN  Commit(r.st, at, ct, [syn EXCEPT ![v] = r.write], spa, blocks, lost,
                        hist, budget)

\* The write of mc_alloc_groups and mutex_exit(&mg->mg_lock).
ReassessEnd ==
    /\ Running
    /\ \E v \in DOMAIN mg :
          /\ syn[v] # NoOffset
          /\ Commit([Cur EXCEPT !.mc.mc_alloc_groups = syn[v]], at, ct,
                    [syn EXCEPT ![v] = NoOffset], spa, blocks, lost, hist, budget)

GroupsNext ==
    GroupActivate \/ GroupPassivate \/ GroupFill \/ ReassessBegin \/ ReassessEnd

SpecGroups == GroupsInit /\ [][GroupsNext]_vars

\* Activation and passivation alone, over RotorCount groups.
RotorInit == GroupsBuilt(RotorCount)

RotorNext == GroupActivate \/ GroupPassivate

SpecRotor == RotorInit /\ [][RotorNext]_vars

\* The groups on the rotor (activation count above zero), and the groups
\* reached from mc_rotor in at most n steps along mg_next.
Active == { v \in DOMAIN mg : mg[v].mg_activation_count > 0 }

RECURSIVE Walk(_, _)
Walk(v, n) ==
    IF n = 0 \/ v = NoGroup THEN <<>>
    ELSE <<v>> \o (IF mg[v].mg_next = mc.mc_rotor THEN <<>>
                   ELSE Walk(mg[v].mg_next, n - 1))

\* C16: after any sequence of metaslab_group_activate and _passivate calls
\* the rotor is a well-formed circular doubly linked list: mc_rotor is NULL
\* iff no group is active; every active group has non-NULL mg_prev and
\* mg_next with next(prev(g)) = g; following mg_next from mc_rotor visits
\* every active group exactly once and then returns to mc_rotor; and every
\* inactive group has mg_prev = mg_next = NULL.
C16_RotorWellFormed ==
    LET walk == Walk(mc.mc_rotor, Cardinality(DOMAIN mg) + 1)
    IN  /\ (mc.mc_rotor = NoGroup) <=> (Active = {})
        /\ \A g \in Active :
              /\ mg[g].mg_prev # NoGroup /\ mg[g].mg_next # NoGroup
              /\ mg[mg[g].mg_prev].mg_next = g
        /\ { walk[i] : i \in 1 .. Len(walk) } = Active
        /\ Len(walk) = Cardinality(Active)
        /\ Active # {} => mg[walk[Len(walk)]].mg_next = mc.mc_rotor
        /\ \A g \in DOMAIN mg \ Active :
              mg[g].mg_prev = NoGroup /\ mg[g].mg_next = NoGroup

\* Two groups are on the rotor after a third was activated and passivated,
\* and one group has been passivated twice.
C16_Witness ==
    /\ Cardinality(Active) = 2
    /\ \E g \in DOMAIN mg : mg[g].mg_activation_count < 0
    /\ \E g \in DOMAIN mg \ Active : mg[g].mg_aliquot > 0


\* C17: whenever every group on the rotor has free capacity at or below
\* zfs_mg_noalloc_threshold, metaslab_group_allocatable returns true for each
\* of them, so that no allocation is refused on capacity grounds when all
\* groups are starved; after any sequence of activate, passivate and
\* metaslab_sync_reassess calls.
C17_StarvedStillAllocatable ==
    (/\ ~Reassessing
     /\ Active # {}
     /\ \A g \in Active : mg[g].mg_free_capacity <= zfs_mg_noalloc_threshold)
    => \A g \in Active : metaslab_group_allocatable(Cur, g)

\* C18: mc_alloc_groups equals the number of groups on the class rotor
\* whose mg_allocatable flag is true, whenever no metaslab_group_alloc_update
\* is in progress, after any sequence of activate, passivate and reassess
\* calls, those of different groups running concurrently.
C18_CountsRotorGroups ==
    ~Reassessing =>
        mc.mc_alloc_groups = Cardinality({ g \in Active : mg[g].mg_allocatable })


(***************************************************************************)
(* Striping: StripeCount single-device groups, all active, equally         *)
(* utilised (empty) and never written; one thread makes StripeCalls        *)
(* single-copy allocations without a hint, one after the other, of 128 KiB *)
(* (a quarter of metaslab_aliquot; here one sector) or of a whole aliquot. *)
(***************************************************************************)
StripeCount == 4
StripeCalls == 4
StripeSizes == {metaslab_aliquot \div 4, metaslab_aliquot}

RECURSIVE ActivateAll(_, _, _)
ActivateAll(st, n, i) ==
    IF i = n THEN st
    ELSE CHOOSE r \in { ActivateAll(s, n, i + 1) : s \in {metaslab_group_activate(st, i)} } :
             TRUE

StripeInit ==
    \E ops \in Strategies :
        \E st \in {ActivateAll(Built(0 .. (StripeCount - 1), ops), StripeCount, 0)} :
            /\ ms = st.ms /\ mg = st.mg /\ mc = st.mc /\ vd = st.vd
            /\ panic = st.panic /\ fired = {}
            /\ spa = [syncing_txg |-> TXG_INITIAL, sync_pass |-> 1, phase |-> "write",
                      dirty |-> FALSE, spa_freeze_txg |-> UINT64_MAX]
            /\ at = AtIdle /\ ct = CtIdle /\ syn = NoSync
            /\ blocks = {} /\ lost = {} /\ hist = NoHist /\ budget = StripeCalls /\ pt = PtIdle /\ lk = LkIdle /\ lw = LwIdle /\ nfs = NfsIdle

\* metaslab_alloc(spa, mc, psize, bp, 1, txg, NULL, flags).
StripeBegin ==
    /\ Running /\ at.pc = "idle" /\ budget > 0
    /\ \E txg \in OpTxgs, psize \in StripeSizes :
          LET a == [AtIdle EXCEPT !.txg = txg, !.ndvas = 1, !.psize = psize]
          IN  Commit(Cur, DvaStart(Cur, a, 0), ct, syn, spa, blocks, lost, Hist,
                     budget - 1)

StripeNext == StripeBegin \/ AllocGroup \/ AllocLocked

SpecStripe == StripeInit /\ [][StripeNext]_vars

\* The vdevs of the blocks allocated so far, and whether all of them are of
\* 128 KiB.
StripeVdevs == { b.dvas[1].vdev : b \in blocks }
AllSmall == \A b \in blocks : b.dvas[1].asize = metaslab_aliquot \div 4
StripeDone == at.pc = "idle" /\ Cardinality(blocks) = 4

\* C19 as stated: in a class with 4 equally utilised active single-device
\* groups with ample free space, four consecutive single-copy allocations
\* of 128 KiB return DVAs on four pairwise distinct vdevs.
C19_FourDistinctVdevs ==
    (StripeDone /\ AllSmall) => Cardinality(StripeVdevs) = 4

\* The step that returns a block moves the rotor by the aliquot rule.
C19_Step ==
    blocks' # blocks =>
        LET b == CHOOSE x \in blocks' : x \notin blocks
            v == b.dvas[1].vdev
            sum == mc.mc_aliquot + b.dvas[1].asize
        IN  IF sum >= mg'[v].mg_aliquot + mg'[v].mg_bias
            THEN mc'.mc_rotor = mg[v].mg_next /\ mc'.mc_aliquot = 0
            ELSE mc'.mc_rotor = mc.mc_rotor /\ mc'.mc_aliquot = sum

\* C19, amended: mc_rotor moves to mg_next once the bytes allocated since
\* the group was selected reach mg_aliquot + mg_bias, and not before; so
\* four consecutive allocations of 128 KiB, a quarter of the 512 KiB
\* aliquot each, return DVAs on one and the same vdev, and the fourth moves
\* the rotor on to the next group.
C19_AliquotPerGroup ==
    /\ [][C19_Step]_vars
    /\ []((StripeDone /\ AllSmall) =>
            /\ Cardinality(StripeVdevs) = 1
            /\ mc.mc_aliquot = 0
            /\ \A v \in StripeVdevs : mc.mc_rotor = mg[v].mg_next /\ mc.mc_rotor # v)

\* Four allocations of 128 KiB have returned.
C19_Witness == StripeDone /\ AllSmall /\ budget = 0


(***************************************************************************)
(* Copies of one block on one device: a class with a single group whose    *)
(* device has DittoCount metaslabs (16 GiB at ms_shift = 27 has 128; the    *)
(* distance vdev_asize >> 3 is an eighth of the device, here two           *)
(* metaslabs).  The pool is fresh, or all but a few metaslabs are full and *)
(* those few were never written or have one free sector at their head or   *)
(* tail.  One thread calls metaslab_alloc for a block of DittoCopies DVAs. *)
(***************************************************************************)
DittoCount == 16
DittoCopies == 3

DittoIds == 0 .. (DittoCount - 1)
\* What is free in the metaslabs of R: all of each (never written), the
\* first sector of each, or the last sector of the lowest of them and the
\* first sector of the others.
DittoFills(R) ==
    { [i \in R |-> Sectors],
      [i \in R |-> {0}],
      [i \in R |-> IF \A j \in R : i <= j THEN {2^(MsShift - Ashift) - 1} ELSE {0}] }
\* The metaslabs that are not like the rest: at most three of them.
DittoRooms == {{}} \cup { {a, b, c} : a, b, c \in DittoIds }

RECURSIVE DittoInitAll(_, _)
DittoInitAll(st, i) ==
    IF i = DittoCount THEN {st}
    ELSE UNION { DittoInitAll(s, i + 1) : s \in {metaslab_init(st, <<0, i>>)} }

RECURSIVE DittoSettleAll(_, _, _)
DittoSettleAll(st, X, i) ==
    IF i = DittoCount THEN {metaslab_group_alloc_update(st, 0)}
    ELSE LET k == <<0, i>>
             free == UNION { Range(st.ms[k].ms_start + x * 2^Ashift, 2^Ashift) : x \in X[i] }
         IN  UNION { DittoSettleAll(s, X, i + 1) : s \in {Settle(st, k, free)} }

\* vdev_metaslab_init of the one device and the activation of its group
\* (the folds give the one resulting state as a singleton set).
DittoBuilt(ops) ==
    LET st0 == [ms |-> [k \in {0} \X DittoIds |-> NewMetaslab(k[2], ops)],
                mg |-> [v \in {0} |->
                           [NewGroup EXCEPT !.mg_tree = [i \in 1 .. DittoCount |-> i - 1]]],
                mc |-> NewClass,
                vd |-> [v \in {0} |->
                           [NewVdev EXCEPT !.vdev_ms_count = DittoCount,
                                           !.vdev_asize = DittoCount * 2^MsShift]],
                panic |-> "", fired |-> {}, spa_freeze_txg |-> UINT64_MAX]
    IN  { [s1 EXCEPT !.vd[0].vdev_ms_list = [t \in 0 .. (TXG_SIZE - 1) |-> {}]] :
              s1 \in { metaslab_group_activate(s, 0) : s \in DittoInitAll(st0, 0) } }

DittoInit ==
    \E R \in DittoRooms :
      \E f \in DittoFills(R), rest \in IF R = {} THEN {{}, Sectors} ELSE {{}} :
        \E built \in DittoBuilt(zfs_metaslab_ops) :
            \E st \in DittoSettleAll(built, [i \in DittoIds |-> IF i \in R THEN f[i] ELSE rest], 0) :
                /\ ms = st.ms /\ mg = st.mg /\ mc = st.mc /\ vd = st.vd
                /\ panic = st.panic /\ fired = {}
                /\ spa = [syncing_txg |-> TXG_INITIAL, sync_pass |-> 1, phase |-> "write",
                          dirty |-> FALSE, spa_freeze_txg |-> UINT64_MAX]
                /\ at = AtIdle /\ ct = CtIdle /\ syn = NoSync
                /\ blocks = {} /\ lost = {} /\ hist = NoHist /\ budget = 1 /\ pt = PtIdle /\ lk = LkIdle /\ lw = LwIdle /\ nfs = NfsIdle

\* metaslab_alloc(spa, mc, psize, bp, 3, txg, NULL, flags) of one sector.
DittoBegin ==
    /\ Running /\ at.pc = "idle" /\ budget > 0
    /\ LET a == [AtIdle EXCEPT !.txg = TXG_INITIAL, !.ndvas = DittoCopies,
                               !.psize = 2^Ashift]
       IN  Commit(Cur, DvaStart(Cur, a, 0), ct, syn, spa, blocks, lost, Hist,
                  budget - 1)

DittoNext == DittoBegin \/ AllocGroup \/ AllocLocked \/ AllocLoaded \/ AllocUndo

SpecDitto == DittoInit /\ [][DittoNext]_vars

\* The distance metaslab_alloc_dva asks of metaslab_group_alloc at dshift.
DittoDistance(dshift) ==
    LET dist0 == vd[0].vdev_asize \div 2^dshift
    IN  IF dist0 <= 2^vd[0].vdev_ms_shift THEN 0 ELSE dist0

Abs(x) == IF x < 0 THEN 0 - x ELSE x

\* The block the call returned, its DVAs' metaslabs, and the metaslabs that
\* had room for a sector when the call was made (nothing is synced during
\* the call, so the space maps still say so).
DittoDone == at.pc = "idle" /\ at.ret = 0 /\ blocks # {}
DittoRoom(i) == ms[<<0, i>>].ms_size - space_map_allocated(ms[<<0, i>>].ms_sm) >= 2^Ashift
DittoFarRoom ==
    \E i, j, k \in DittoIds :
        /\ DittoRoom(i) /\ DittoRoom(j) /\ DittoRoom(k)
        /\ (j - i) * 2^MsShift >= DittoDistance(3)
        /\ (k - j) * 2^MsShift >= DittoDistance(3)
DittoFresh == \A i \in DittoIds : space_map_allocated(ms[<<0, i>>].ms_sm) = 0
DittoApart(dist) ==
    \A b \in blocks : \A i, j \in 1 .. Len(b.dvas) :
        i # j => Abs(b.dvas[i].offset - b.dvas[j].offset) >= dist

\* C20 as stated: the three offsets are pairwise at least vdev_asize >> 3
\* bytes apart whenever metaslabs that far apart have room.
C20_ByteDistance ==
    (DittoDone /\ DittoFarRoom) => DittoApart(vd[0].vdev_asize \div 2^3)

\* The only changes of dshift: back to 3 for a new copy or for the retry
\* under the scl lock, or up by one in a step that ends a pass over the
\* whole rotor in which no metaslab at the distance of the current dshift
\* could be chosen.
C20_Step ==
    at'.dshift # at.dshift =>
        \/ at'.dshift = 3
        \/ /\ at'.dshift = at.dshift + 1
           /\ at.pc \in {"group", "select"}
           /\ mg[at.mg].mg_next = at.rotor
           /\ DittoDistance(at.dshift) # 0
           /\ GroupSelect(Cur, at.mg, mg[at.mg].mg_tree,
                          vdev_psize_to_asize(vd[at.mg], at.psize),
                          ActivationWeight(at.mg, at.dva),
                          DittoDistance(at.dshift), at.dva).msp = NoMs

\* C20: a metaslab chosen for a later copy is, by metaslab_distance (whole
\* metaslabs, not bytes), at least vdev_asize >> dshift from the offset of
\* every earlier copy, with dshift the value in force (the distance is 0
\* once it would not exceed one metaslab); dshift starts at 3 for every
\* copy and grows only after a full pass over the rotor failed at the
\* current distance; and on a fresh device the three offsets are pairwise
\* at least vdev_asize >> 3 bytes apart.
C20_DistanceInForce ==
    /\ [][C20_Step]_vars
    /\ [](at.pc = "lock" /\ at.d > 0 =>
             /\ at.distance = DittoDistance(at.dshift)
             /\ \A i \in 1 .. Len(at.dva) :
                    metaslab_distance(Cur, at.msp, at.dva[i]) >= at.distance)
    /\ []((DittoDone /\ DittoFresh) => DittoApart(vd[0].vdev_asize \div 2^3))

\* A block of three copies has been returned although metaslabs far enough
\* apart had room, two of its copies closer in bytes than vdev_asize >> 3.
C20_Witness ==
    /\ DittoDone /\ DittoFarRoom
    /\ \A b \in blocks : Len(b.dvas) = DittoCopies
    /\ ~DittoApart(vd[0].vdev_asize \div 2^3)


(***************************************************************************)
(* metaslab_preload, the task metaslab_group_preload dispatches for the    *)
(* first metaslab_preload_limit metaslabs of the group's tree.  Like       *)
(* metaslab_activate it waits out a load in progress and loads the         *)
(* metaslab itself when nobody has; space_map_load drops ms_lock while it  *)
(* reads, which is where other threads find ms_loading set.                *)
(***************************************************************************)
metaslab_preload_limit == 3

PreloadTargets(st, v) ==
    { <<v, st.mg[v].mg_tree[i]>> :
        i \in 1 .. (IF Len(st.mg[v].mg_tree) < metaslab_preload_limit
                    THEN Len(st.mg[v].mg_tree) ELSE metaslab_preload_limit) }

\* The end of metaslab_preload: ms_access_txg keeps the metaslab loaded.
PreloadTouch(st, k, syncing) ==
    [st EXCEPT !.ms[k].ms_access_txg = syncing + metaslab_unload_delay + 1]

\* A metaslab_preload that loads without testing ms_loaded.
PreloadStep_again(st, p, syncing) ==
    LET k == p.msp
    IN  IF st.ms[k].ms_sm.open
        THEN [st |-> LoadStart(st, k), p |-> [p EXCEPT !.pc = "loading"]]
        ELSE [st |-> PreloadTouch(LoadFinish(LoadStart(st, k), k, 0), k, syncing),
              p |-> PtIdle]

\* metaslab_preload from the return of metaslab_load_wait.
PreloadStep(st, p, syncing) ==
    LET k == p.msp
    IN  IF st.ms[k].ms_loaded
        THEN [st |-> PreloadTouch(st, k, syncing), p |-> PtIdle]
        ELSE IF st.ms[k].ms_sm.open
        THEN [st |-> LoadStart(st, k), p |-> [p EXCEPT !.pc = "loading"]]
        ELSE [st |-> PreloadTouch(LoadFinish(LoadStart(st, k), k, 0), k, syncing),
              p |-> PtIdle]

\* The load the task started has finished with error, which it ignores.
PreloadLoadedStep(st, p, error, syncing) ==
    [st |-> PreloadTouch(LoadFinish(st, p.msp, error), p.msp, syncing), p |-> PtIdle]

PreloadCommit(r, bu) ==
    /\ ms' = r.st.ms /\ mg' = r.st.mg /\ mc' = r.st.mc /\ vd' = r.st.vd
    /\ panic' = r.st.panic /\ fired' = r.st.fired
    /\ pt' = (IF r.st.panic # "" THEN pt ELSE r.p)
    /\ budget' = bu
    /\ UNCHANGED <<spa, at, ct, syn, blocks, lost, hist, lk, lw, nfs>>

\* taskq_dispatch(mg->mg_taskq, metaslab_preload, msp): the task takes
\* ms_lock and finds a load in progress, or not.
PreloadBegin ==
    /\ Running /\ pt.pc = "idle" /\ budget > 0
    /\ \E v \in DOMAIN mg : \E k \in PreloadTargets(Cur, v) :
          IF ms[k].ms_loading
          THEN PreloadCommit([st |-> Cur, p |-> [pc |-> "wait", msp |-> k]], budget - 1)
          ELSE PreloadCommit(PreloadStep(Cur, [pc |-> "idle", msp |-> k], S), budget - 1)

PreloadWake ==
    /\ Running /\ pt.pc = "wait" /\ ~ms[pt.msp].ms_loading
    /\ \E r \in {PreloadStep(Cur, pt, S)} : PreloadCommit(r, budget)

PreloadLoaded ==
    /\ Running /\ pt.pc = "loading"
    /\ \E error \in {0, EIO} :
          \E r \in {PreloadLoadedStep(Cur, pt, error, S)} : PreloadCommit(r, budget)

(***************************************************************************)
(* Waiting for a load: a pool whose metaslabs are partly allocated and     *)
(* unloaded, at the point where spa_sync has finished the passes of the    *)
(* first txg and vdev_sync_done is about to run metaslab_sync_done on      *)
(* every metaslab.  An allocator, a claimer and a preload task run beside  *)
(* it; every thread that can take a step eventually takes one.             *)
(***************************************************************************)
WaitCalls == 3
WaitFills == { {0, 2^(MsShift - Ashift) - 1}, {2^(MsShift - Ashift) - 1} }

WaitInit ==
    \E X \in [0 .. (MsCount - 1) -> WaitFills] :
        LET s0 == Created(zfs_metaslab_ops)
            s1 == [s0 EXCEPT !.vd[0].vdev_ms_list =
                       [t \in 0 .. (TXG_SIZE - 1) |->
                           IF t = Slot(TXG_CLEAN(TXG_INITIAL)) THEN 0 .. (MsCount - 1)
                           ELSE {}]]
        IN  \E st \in {SettleAll(s1, 0, X, 0)} :
            /\ ms = st.ms /\ mg = st.mg /\ mc = st.mc /\ vd = st.vd
            /\ panic = st.panic /\ fired = {}
            /\ spa = [syncing_txg |-> TXG_INITIAL, sync_pass |-> 1, phase |-> "done",
                      dirty |-> FALSE, spa_freeze_txg |-> UINT64_MAX]
            /\ at = AtIdle /\ ct = CtIdle /\ syn = NoSync
            /\ blocks = {} /\ lost = {} /\ hist = NoHist /\ budget = WaitCalls
            /\ pt = PtIdle /\ lk = LkIdle /\ lw = LwIdle /\ nfs = NfsIdle

\* metaslab_alloc of one sector, and metaslab_claim of the last sector of a
\* metaslab (free in every pool of WaitInit) in the open txg.
WaitAllocBegin ==
    /\ Running /\ at.pc = "idle" /\ budget > 0
    /\ \E txg \in OpTxgs :
          LET a == [AtIdle EXCEPT !.txg = txg, !.ndvas = 1, !.psize = 2^Ashift]
          IN  Commit(Cur, DvaStart(Cur, a, 0), ct, syn, spa, blocks, lost, Hist,
                     budget - 1)

WaitClaimBegin ==
    /\ Running /\ ct.pc = "idle" /\ budget > 0
    /\ \E k \in MsKeys, txg \in OpTxgs :
          LET bp == <<Dva(k[1], ms[k].ms_start + ms[k].ms_size - 2^Ashift, 2^Ashift)>>
          IN  Commit(Cur, at,
                     [CtIdle EXCEPT !.pc = "dva", !.txg = txg, !.dva = bp, !.d = 1],
                     syn, spa, blocks, lost, Hist, budget - 1)

LoadsNext ==
    \/ WaitAllocBegin \/ AllocGroup \/ AllocLocked \/ AllocWake \/ AllocLoaded
    \/ WaitClaimBegin \/ ClaimDva \/ ClaimWake \/ ClaimLoaded
    \/ PreloadBegin \/ PreloadWake \/ PreloadLoaded
    \/ SyncDone

SpecLoads == WaitInit /\ [][LoadsNext]_vars

(***************************************************************************)
(* metaslab_load_wait and metaslab_load with the condition variable made   *)
(* explicit.  A thread of lw calls metaslab_load_wait under ms_lock, as    *)
(* metaslab_activate, metaslab_preload and metaslab_sync_done do; cv_wait  *)
(* puts it to sleep on ms_load_cv until a cv_broadcast, after which it     *)
(* takes ms_lock again and tests ms_loading again.  The callers other than *)
(* metaslab_sync_done then call metaslab_load if the metaslab is not       *)
(* loaded.  What the callers do after that is left out; the scheduler runs *)
(* every thread that can run.                                              *)
(***************************************************************************)
LoadWaitCallers == {"metaslab_activate", "metaslab_preload", "metaslab_sync_done"}
LwThreads == 1 .. WaitThreads
LwOut == [pc |-> "idle", msp |-> NoMs, kind |-> ""]

\* cv_broadcast(&msp->ms_load_cv): every sleeper on the metaslab's cv wakes.
cv_broadcast(w, k) ==
    [t \in DOMAIN w |->
        IF w[t].pc = "cv_wait" /\ w[t].msp = k THEN [w[t] EXCEPT !.pc = "woken"]
        ELSE w[t]]

\* The caller's step after metaslab_load_wait has returned.
LoadWaitReturn(st, w, t) ==
    LET k == w[t].msp
    IN  IF w[t].kind = "metaslab_sync_done" \/ st.ms[k].ms_loaded
        THEN [st |-> st, w |-> [w EXCEPT ![t] = LwOut]]
        ELSE IF st.ms[k].ms_sm.open
        THEN [st |-> LoadStart(st, k), w |-> [w EXCEPT ![t].pc = "loading"]]
        ELSE CHOOSE r \in { [st |-> LoadFinish(s1, k, 0),
                              w |-> cv_broadcast([w EXCEPT ![t] = LwOut], k)] :
                            s1 \in {LoadStart(st, k)} } : TRUE

\* metaslab_load_wait, entered with ms_lock held: one test of ms_loading.
metaslab_load_wait(st, w, t) ==
    LET k == w[t].msp
    IN  IF st.ms[k].ms_loading
        THEN [st |-> Check(st, ~st.ms[k].ms_loaded,
                           "metaslab_load_wait: ASSERT(!msp->ms_loaded)"),
              w |-> [w EXCEPT ![t].pc = "cv_wait"]]
        ELSE LoadWaitReturn(st, w, t)

LoadWaitCommit(r, bu) ==
    /\ ms' = r.st.ms /\ mg' = r.st.mg /\ mc' = r.st.mc /\ vd' = r.st.vd
    /\ panic' = r.st.panic /\ fired' = r.st.fired
    /\ lw' = (IF r.st.panic # "" THEN lw ELSE r.w)
    /\ budget' = bu
    /\ UNCHANGED <<spa, at, ct, syn, blocks, lost, hist, pt, lk, nfs>>

\* A thread takes ms_lock and calls metaslab_load_wait.
LoadWaitEnter ==
    /\ Running /\ budget > 0
    /\ \E t \in LwThreads, k \in MsKeys, kind \in LoadWaitCallers :
          /\ lw[t].pc = "idle"
          /\ \E r \in {metaslab_load_wait(Cur, [lw EXCEPT ![t] =
                              [pc |-> "idle", msp |-> k, kind |-> kind]], t)} :
                 LoadWaitCommit(r, budget - 1)

\* A woken thread returns from cv_wait with ms_lock and goes round the loop.
LoadWaitWake ==
    /\ Running
    /\ \E t \in LwThreads :
          /\ lw[t].pc = "woken"
          /\ \E r \in {metaslab_load_wait(Cur, lw, t)} : LoadWaitCommit(r, budget)

\* space_map_load returns (0 or EIO) and metaslab_load finishes.
LoadWaitLoaded ==
    /\ Running
    /\ \E t \in LwThreads, error \in {0, EIO} :
          /\ lw[t].pc = "loading"
          /\ \E s1 \in {LoadFinish(Cur, lw[t].msp, error)} :
                 LoadWaitCommit([st |-> s1,
                                 w |-> cv_broadcast([lw EXCEPT ![t] = LwOut], lw[t].msp)],
                                budget)

LoadWaitNext == LoadWaitEnter \/ LoadWaitWake \/ LoadWaitLoaded

SpecWait ==
    /\ WaitInit /\ [][LoadWaitNext]_vars
    /\ WF_vars(LoadWaitWake) /\ WF_vars(LoadWaitLoaded)

\* C21: every thread that sleeps in metaslab_load_wait (called from
\* metaslab_activate, metaslab_preload or metaslab_sync_done) eventually
\* returns from it, whether the load it waits for succeeds or fails, unless
\* the system has panicked.
C21_WaitersProceed ==
    \A t \in LwThreads :
        (lw[t].pc = "cv_wait") ~> (lw[t].pc \notin {"cv_wait", "woken"} \/ ~Running)

\* A thread has been woken by the broadcast of a load that failed: the
\* metaslab is neither loading nor loaded.
C21_Witness ==
    /\ Running
    /\ \E t \in LwThreads :
          /\ lw[t].pc = "woken"
          /\ ~ms[lw[t].msp].ms_loading /\ ~ms[lw[t].msp].ms_loaded


(***************************************************************************)
(* C23: what metaslab_ff_alloc returns, under SpecAlloc.                   *)
(***************************************************************************)
\* The cursor bucket metaslab_ff_alloc uses for a size.
FFBucket(size) == highbit64(LowBit(size)) - 1

\* A step of SpecAlloc in which the first-fit allocator has been called:
\* the call's size and result are in at'.
FFAllocStep ==
    /\ panic' = "" /\ ms[K0].ms_ops = "ff"
    /\ blocks \subseteq blocks'
    /\ at'.asize > 0

\* The lowest offset at or after the cursor at which size bytes are free,
\* else the lowest such offset in the metaslab, else -1.
LowestFree(tree, cursor, size) ==
    LET all == { o \in 0 .. (2^MsShift - 1) : Range(o, size) \subseteq tree }
        after == { o \in all : o >= cursor }
        Least(X) == CHOOSE o \in X : \A q \in X : o <= q
    IN  IF after # {} THEN Least(after)
        ELSE IF all # {} THEN Least(all)
        ELSE NoOffset

\* C23 as stated: first-fit returns the lowest offset at or after the
\* bucket's cursor at which size bytes are free, wrapping once to offset 0,
\* and -1 only if no free segment can hold the request.
C23_LowestFree ==
    [][FFAllocStep =>
          at'.ret = LowestFree(ms[K0].ms_tree, ms[K0].ms_lbas[FFBucket(at'.asize)],
                               at'.asize)]_vars

\* C23: first-fit returns an offset aligned to size & -size: the first such
\* offset of a free segment that holds size bytes from there.  No segment
\* that lies beyond the search key and would do is passed over, the cursor
\* of the size's bucket moves to the end of the block, and the result is -1
\* exactly when no free segment holds an aligned block of the size.  On a
\* fully free metaslab of four sectors an allocation of one sector returns
\* offset 0, an allocation of two sectors then returns the offset of the
\* third sector, and an allocation of the whole metaslab then returns -1.
C23_AlignedFirstFit ==
    [][FFAllocStep =>
          LET tree == ms[K0].ms_tree
              size == at'.asize
              align == LowBit(size)
              cursor == ms[K0].ms_lbas[FFBucket(size)]
              fit == { r \in Segs(tree) : FitsAt(r, size, align) }
              sector == 2^Ashift
              whole == Range(0, 2^MsShift)
          IN  /\ at'.ret = NoOffset <=> fit = {}
              /\ at'.ret # NoOffset =>
                    \E r \in fit :
                        /\ at'.ret = P2ROUNDUP(r.rs_start, align)
                        /\ ms'[K0].ms_lbas[FFBucket(size)] = at'.ret + size
                        /\ \A q \in fit :
                              q.rs_start >= cursor + size =>
                                  r.rs_end > cursor /\ r.rs_start <= q.rs_start
              /\ (tree = whole /\ ms[K0].ms_lbas = NoLbas /\ size = sector)
                    => at'.ret = 0
              /\ (/\ tree = whole \ Range(0, sector)
                  /\ ms[K0].ms_lbas = [NoLbas EXCEPT ![FFBucket(sector)] = sector]
                  /\ size = 2 * sector)
                    => at'.ret = 2 * sector
              /\ (tree = Range(sector, sector) /\ size = 2^MsShift)
                    => at'.ret = NoOffset]_vars

\* One sector and then two sectors have been allocated first-fit from a
\* fully free metaslab: the second block is the second half of the
\* metaslab, and the second sector is still free.
C23_Witness ==
    /\ Running /\ ms[K0].ms_ops = "ff"
    /\ at.ret = 2 * 2^Ashift /\ at.asize = 2 * 2^Ashift
    /\ ms[K0].ms_tree = Range(2^Ashift, 2^Ashift)
    /\ ms[K0].ms_lbas[FFBucket(2^Ashift)] = 2^Ashift
    /\ Cardinality(blocks) = 2


(***************************************************************************)
(* C24: what metaslab_df_alloc returns, under SpecAlloc.                   *)
(***************************************************************************)
DFAllocStep ==
    /\ panic' = "" /\ ms[K0].ms_ops = "df"
    /\ blocks \subseteq blocks'
    /\ at'.asize > 0

\* The length of the longest free segment, 0 if nothing is free.
LongestFree(tree) ==
    IF tree = {} THEN 0
    ELSE CHOOSE n \in 1 .. Cardinality(tree) :
             /\ \E r \in Segs(tree) : SegLen(r) = n
             /\ \A r \in Segs(tree) : SegLen(r) <= n

\* The segments that can hold size bytes, and the best fit among them: the
\* shortest, and of the shortest the one that starts lowest.
LongEnough(tree, size) == { r \in Segs(tree) : SegLen(r) >= size }
BestFit(tree, size) ==
    CHOOSE r \in LongEnough(tree, size) :
        \A q \in LongEnough(tree, size) :
            \/ SegLen(r) < SegLen(q)
            \/ SegLen(r) = SegLen(q) /\ r.rs_start <= q.rs_start

\* The metaslab counts as fragmented for the dynamic fit.
DFLow(msp) ==
    \/ LongestFree(msp.ms_tree) < metaslab_df_alloc_threshold
    \/ (Cardinality(msp.ms_tree) * 100) \div msp.ms_size < metaslab_df_free_pct

C30_NoPendingAtUnload ==
    panic # "metaslab_sync_done: VERIFY0(range_tree_space(ms_alloctree[(txg + t) & TXG_MASK]))"


(***************************************************************************)
(* C27: the active bits of ms_weight.                                      *)
(***************************************************************************)
\* C27: a metaslab whose weight carries METASLAB_WEIGHT_PRIMARY or
\* METASLAB_WEIGHT_SECONDARY is loaded, and no weight carries both bits.
C27_ActiveLoaded ==
    \A k \in MsKeys :
        /\ WeightBits(ms[k].ms_weight) # 0 => ms[k].ms_loaded
        /\ ~(HasPrimary(ms[k].ms_weight) /\ HasSecondary(ms[k].ms_weight))


(***************************************************************************)
(* C26: ms_tree while the metaslab is condensing.  A pool in which the     *)
(* callers make multi-copy allocations while spa_sync runs; what is free   *)
(* decides whether a later copy fails and the earlier ones are undone.     *)
(***************************************************************************)
CondenseCalls == 2
\* What is free in a metaslab at the start: nothing, the last sector, the
\* last two sectors, or everything.
CondenseFills ==
    { {}, {2^(MsShift - Ashift) - 1},
      {2^(MsShift - Ashift) - 2, 2^(MsShift - Ashift) - 1}, Sectors }

CondenseInit ==
    \E X \in [0 .. (MsCount - 1) -> CondenseFills] :
        LET s0 == Created(zfs_metaslab_ops)
            s1 == [s0 EXCEPT !.vd[0].vdev_ms_list = [t \in 0 .. (TXG_SIZE - 1) |-> {}]]
        IN  \E st \in {SettleAll(s1, 0, X, 0)} :
            /\ ms = st.ms /\ mg = st.mg /\ mc = st.mc /\ vd = st.vd
            /\ panic = st.panic /\ fired = {}
            /\ spa = [syncing_txg |-> TXG_INITIAL, sync_pass |-> 1, phase |-> "write",
                      dirty |-> FALSE, spa_freeze_txg |-> UINT64_MAX]
            /\ at = AtIdle /\ ct = CtIdle /\ syn = NoSync
            /\ blocks = {} /\ lost = {} /\ hist = NoHist /\ budget = CondenseCalls
            /\ pt = PtIdle /\ lk = LkIdle /\ lw = LwIdle /\ nfs = NfsIdle

\* A caller enters metaslab_alloc with a block of one sector.
CondenseAllocBegin ==
    /\ Running /\ at.pc = "idle" /\ budget > 0
    /\ \E txg \in OpTxgs, ndvas \in 1 .. MaxDvas :
          LET a == [AtIdle EXCEPT !.txg = txg, !.ndvas = ndvas, !.psize = 2^Ashift]
          IN  Commit(Cur,
                     IF mc.mc_rotor = NoGroup THEN [a EXCEPT !.ret = ENOSPC]
                     ELSE DvaStart(Cur, a, 0),
                     ct, syn, spa, blocks, lost, Hist, budget - 1)

CondenseNext ==
    \/ CondenseAllocBegin \/ AllocGroup \/ AllocLocked \/ AllocLoaded \/ AllocUndo
    \/ WriteEnd \/ Sync \/ CondenseFinish \/ NextPass \/ SyncEnd \/ SyncDone \/ TxgAdvance

SpecCondense == CondenseInit /\ [][CondenseNext]_vars

\* C26: no thread modifies ms_tree while ms_condensing is set: the
\* VERIFY(!msp->ms_condensing) of metaslab_rt_add, metaslab_rt_remove,
\* metaslab_free_dva and metaslab_claim_dva never fires.
C26_NotWhileCondensing ==
    panic \notin {"metaslab_rt_add: VERIFY(!msp->ms_condensing)",
                  "metaslab_rt_remove: VERIFY(!msp->ms_condensing)",
                  "metaslab_free_dva: VERIFY(!msp->ms_condensing)",
                  "metaslab_claim_dva: VERIFY(!msp->ms_condensing)"}


(***************************************************************************)
(* C28: the order of mg_metaslab_tree.  metaslab_sync_done holds ms_lock   *)
(* from its start to its end and takes mg_lock only inside the             *)
(* metaslab_group_sort that ends it, so here it runs in two steps: up to   *)
(* that call, and the call.  Between the two mg_lock is free; syn.msp is   *)
(* the metaslab whose ms_lock the syncing thread holds.  metaslab_claim    *)
(* runs beside it.                                                         *)
(***************************************************************************)
\* metaslab_sync_done up to its last statement, metaslab_group_sort.
OrderSyncDone ==
    /\ Running /\ spa.phase = "done" /\ syn.msp = NoMs
    /\ \E k \in MsKeys :
          /\ k[2] \in vd[k[1]].vdev_ms_list[Slot(TXG_CLEAN(S))]
          /\ ~ms[k].ms_loading
          /\ \E s7 \in {SyncDoneRotate([Cur EXCEPT
                              !.vd[k[1]].vdev_ms_list[Slot(TXG_CLEAN(S))] = @ \ {k[2]}],
                                        k, S)} :
             \E s8 \in {IF Halted(s7) THEN s7
                        ELSE IF s7.ms[k].ms_deferspace # 0 THEN vdev_dirty(s7, k, S + 1)
                        ELSE s7} :
             \E s9 \in {IF Halted(s8) THEN s8 ELSE SyncDoneUnload(s8, k, S)} :
                 Commit(s9, at, ct, [NoSync EXCEPT !.msp = k], spa, blocks, lost,
                        [Hist EXCEPT !.done[k] = S], budget)

\* metaslab_group_sort(mg, msp, metaslab_weight(msp)) and mutex_exit.
OrderSyncDoneSort ==
    /\ Running /\ spa.phase = "done" /\ syn.msp # NoMs
    /\ \E s1 \in {metaslab_group_sort(Cur, syn.msp, metaslab_weight(Cur, syn.msp))} :
          Commit(s1, at, ct, NoSync, spa, blocks, lost, Hist, budget)

\* metaslab_claim_dva takes ms_lock, which the syncing thread may hold.
OrderClaimDva ==
    /\ ct.pc = "dva"
    /\ DvaBad(Cur, ct.dva[ct.d]) \/ DvaMs(Cur, ct.dva[ct.d]) # syn.msp
    /\ ClaimDva

OrderNext ==
    \/ WaitClaimBegin \/ OrderClaimDva \/ ClaimLoaded
    \/ OrderSyncDone \/ OrderSyncDoneSort

SpecOrder == WaitInit /\ [][OrderNext]_vars

\* The group's tree is in metaslab_compare order of the current weights.
TreeOrdered(v) ==
    LET tree == mg[v].mg_tree
    IN  \A i, j \in 1 .. Len(tree) :
            i < j => metaslab_compare(ms[<<v, tree[i]>>], ms[<<v, tree[j]>>])

\* C28: whenever mg_lock is free, every group's tree is ordered by
\* ms_weight descending and ms_start ascending, for the weights the
\* metaslabs have now.
C28_TreeOrdered == \A v \in DOMAIN mg : TreeOrdered(v)

(***************************************************************************)
(* C22.  The order in which the code takes its locks.  A thread's run      *)
(* through an operation is the sequence of mutex_enter, mutex_exit,        *)
(* spa_config_enter and spa_config_exit calls the code makes on that path; *)
(* lk[t].rest is what is left of it and lk[t].held the locks the thread    *)
(* holds, in the order it took them.  A mutex has one holder; the config   *)
(* lock is taken as reader and is shared.                                  *)
(***************************************************************************)
LockMsCount == 2
LockRetries == 1
LockCalls == 3

SCL_ALLOC == [kind |-> "SCL_ALLOC", id |-> 0]
SCL_ZIO == [kind |-> "SCL_ZIO", id |-> 0]
SCL_FREE == [kind |-> "SCL_FREE", id |-> 0]
mg_lock == [kind |-> "mg_lock", id |-> 0]
ms_lock(k) == [kind |-> "ms_lock", id |-> k]
ConfigKinds == {"SCL_ALLOC", "SCL_ZIO", "SCL_FREE"}

mutex_enter(l) == <<[op |-> "enter", lock |-> l]>>
mutex_exit(l) == <<[op |-> "exit", lock |-> l]>>
spa_config_enter(l) == mutex_enter(l)
spa_config_exit(l) == mutex_exit(l)

\* Every path of A followed by every path of B.
Cat(A, B) == {a \o b : a \in A, b \in B}

\* metaslab_group_sort: called with ms_lock held; takes and drops mg_lock.
metaslab_group_sort_locks == mutex_enter(mg_lock) \o mutex_exit(mg_lock)

\* metaslab_activate sorts the group unless the metaslab is active already
\* or its load fails; metaslab_passivate always sorts.
metaslab_activate_locks == {<<>>, metaslab_group_sort_locks}
metaslab_passivate_locks == {metaslab_group_sort_locks}

\* The walk of the group's tree under mg_lock, dropped before ms_lock of the
\* metaslab chosen is taken.
GroupAllocSelect == mutex_enter(mg_lock) \o mutex_exit(mg_lock)

\* A turn of the loop that takes ms_lock before it drops mg_lock.
GroupAllocRetry_held(k) ==
    Cat({mutex_enter(mg_lock) \o mutex_enter(ms_lock(k)) \o mutex_exit(mg_lock)},
        Cat({<<>>} \cup metaslab_passivate_locks \cup metaslab_activate_locks
                \cup Cat(metaslab_activate_locks, metaslab_passivate_locks),
            {mutex_exit(ms_lock(k))}))

\* One turn of metaslab_group_alloc's loop on metaslab k that ends in
\* "continue": the weight no longer fits, a secondary is passivated, the
\* activation fails, the metaslab is condensing, or the block allocator fails
\* and the metaslab is passivated.
GroupAllocRetry(k) ==
    Cat({GroupAllocSelect \o mutex_enter(ms_lock(k))},
        Cat({<<>>} \cup metaslab_passivate_locks \cup metaslab_activate_locks
                \cup Cat(metaslab_activate_locks, metaslab_passivate_locks),
            {mutex_exit(ms_lock(k))}))

\* An allocating turn that takes ms_lock before it drops mg_lock.
GroupAllocBreak_held(k) ==
    Cat({mutex_enter(mg_lock) \o mutex_enter(ms_lock(k)) \o mutex_exit(mg_lock)},
        Cat(metaslab_activate_locks, {mutex_exit(ms_lock(k))}))

\* The turn that allocates: activate, metaslab_block_alloc, leave the loop
\* and drop ms_lock at the end of the function.
GroupAllocBreak(k) ==
    Cat({GroupAllocSelect \o mutex_enter(ms_lock(k))},
        Cat(metaslab_activate_locks, {mutex_exit(ms_lock(k))}))

\* metaslab_group_alloc with at most n turns that end in "continue": it
\* returns -1 from the walk, or allocates, or goes round again.
RECURSIVE metaslab_group_alloc_locks(_)
metaslab_group_alloc_locks(n) ==
    {GroupAllocSelect}
        \cup UNION {GroupAllocBreak(k) : k \in 0 .. (LockMsCount - 1)}
        \cup (IF n = 0 THEN {}
              ELSE UNION {Cat(GroupAllocRetry(k), metaslab_group_alloc_locks(n - 1)) :
                              k \in 0 .. (LockMsCount - 1)})

\* metaslab_alloc_dva: the vdev_allocatable test under SCL_ZIO when the
\* caller asked for it, then metaslab_group_alloc.
metaslab_alloc_dva_locks ==
    Cat({<<>>, spa_config_enter(SCL_ZIO) \o spa_config_exit(SCL_ZIO)},
        metaslab_group_alloc_locks(LockRetries))

metaslab_free_dva_locks(k) == {mutex_enter(ms_lock(k)) \o mutex_exit(ms_lock(k))}

metaslab_claim_dva_locks(k) ==
    Cat({mutex_enter(ms_lock(k))}, Cat(metaslab_activate_locks, {mutex_exit(ms_lock(k))}))

\* metaslab_alloc of one DVA, and of a second one that fails in the walk so
\* that the first is freed again.
metaslab_alloc_locks ==
    Cat({spa_config_enter(SCL_ALLOC)},
        Cat(metaslab_alloc_dva_locks
                \cup UNION {Cat(GroupAllocBreak(k),
                                Cat({GroupAllocSelect}, metaslab_free_dva_locks(k))) :
                                k \in 0 .. (LockMsCount - 1)},
            {spa_config_exit(SCL_ALLOC)}))

metaslab_free_locks ==
    UNION {Cat({spa_config_enter(SCL_FREE)},
               Cat(metaslab_free_dva_locks(k), {spa_config_exit(SCL_FREE)})) :
               k \in 0 .. (LockMsCount - 1)}

\* metaslab_claim: the dry run and the claim itself, each one
\* metaslab_claim_dva per DVA.
metaslab_claim_locks ==
    UNION {Cat({spa_config_enter(SCL_ALLOC)},
               Cat(metaslab_claim_dva_locks(k) \cup
                       Cat(metaslab_claim_dva_locks(k), metaslab_claim_dva_locks(k)),
                   {spa_config_exit(SCL_ALLOC)})) :
               k \in 0 .. (LockMsCount - 1)}

\* metaslab_sync: ms_lock, dropped and retaken around space_map_truncate
\* when the metaslab is condensed.
metaslab_sync_locks ==
    UNION {Cat({mutex_enter(ms_lock(k))},
               Cat({<<>>, mutex_exit(ms_lock(k)) \o mutex_enter(ms_lock(k))},
                   {mutex_exit(ms_lock(k))})) :
               k \in 0 .. (LockMsCount - 1)}

\* metaslab_sync_done ends with metaslab_group_sort under ms_lock.
metaslab_sync_done_locks ==
    {mutex_enter(ms_lock(k)) \o metaslab_group_sort_locks \o mutex_exit(ms_lock(k)) :
         k \in 0 .. (LockMsCount - 1)}

\* metaslab_preload, run by the taskq, and metaslab_group_preload, which
\* dispatches it while it walks the tree under mg_lock.
metaslab_preload_locks ==
    {mutex_enter(ms_lock(k)) \o mutex_exit(ms_lock(k)) : k \in 0 .. (LockMsCount - 1)}
metaslab_group_preload_locks == {mutex_enter(mg_lock) \o mutex_exit(mg_lock)}

LockOps == {"alloc", "free", "claim", "sync", "sync_done", "preload", "group_preload"}

LockPaths(op) ==
    CASE op = "alloc" -> metaslab_alloc_locks
      [] op = "free" -> metaslab_free_locks
      [] op = "claim" -> metaslab_claim_locks
      [] op = "sync" -> metaslab_sync_locks
      [] op = "sync_done" -> metaslab_sync_done_locks
      [] op = "preload" -> metaslab_preload_locks
      [] op = "group_preload" -> metaslab_group_preload_locks

LockHolders(l) == {t \in 1 .. LockThreads : \E i \in DOMAIN lk[t].held : lk[t].held[i] = l}

\* The sequence q without its last occurrence of l.
RECURSIVE Release(_, _)
Release(q, l) ==
    IF q = <<>> THEN <<>>
    ELSE IF q[Len(q)] = l THEN SubSeq(q, 1, Len(q) - 1)
    ELSE Append(Release(SubSeq(q, 1, Len(q) - 1), l), q[Len(q)])

LockUnchanged ==
    UNCHANGED <<ms, mg, mc, vd, spa, at, ct, syn, panic, fired, blocks, lost, hist, pt, lw, nfs>>

\* A thread enters one of the operations.
LockBegin ==
    /\ budget > 0
    /\ \E t \in 1 .. LockThreads :
           /\ lk[t].op = "idle"
           /\ \E op \in LockOps :
                  \E path \in LockPaths(op) :
                      lk' = [lk EXCEPT ![t] = [op |-> op, rest |-> path, held |-> <<>>]]
    /\ budget' = budget - 1
    /\ LockUnchanged

\* mutex_enter and spa_config_enter(RW_READER): the thread blocks while
\* another thread holds the mutex.
LockEnter ==
    /\ \E t \in 1 .. LockThreads :
           /\ lk[t].rest # <<>>
           /\ Head(lk[t].rest).op = "enter"
           /\ LET l == Head(lk[t].rest).lock
              IN  /\ l.kind \in ConfigKinds \/ LockHolders(l) = {}
                  /\ lk' = [lk EXCEPT ![t].rest = Tail(@), ![t].held = Append(@, l)]
    /\ UNCHANGED budget
    /\ LockUnchanged

LockExit ==
    /\ \E t \in 1 .. LockThreads :
           /\ lk[t].rest # <<>>
           /\ Head(lk[t].rest).op = "exit"
           /\ lk' = [lk EXCEPT ![t].rest = Tail(@),
                               ![t].held = Release(@, Head(lk[t].rest).lock)]
    /\ UNCHANGED budget
    /\ LockUnchanged

\* The operation returns.
LockReturn ==
    /\ \E t \in 1 .. LockThreads :
           /\ lk[t].op # "idle"
           /\ lk[t].rest = <<>>
           /\ lk' = [lk EXCEPT ![t] = [op |-> "idle", rest |-> <<>>, held |-> <<>>]]
    /\ UNCHANGED budget
    /\ LockUnchanged

LockInit ==
        LET st == Created(zfs_metaslab_ops)
        IN  /\ ms = st.ms /\ mg = st.mg /\ mc = st.mc /\ vd = st.vd
            /\ panic = st.panic /\ fired = st.fired
            /\ spa = [syncing_txg |-> TXG_INITIAL, sync_pass |-> 1, phase |-> "write",
                     dirty |-> FALSE, spa_freeze_txg |-> UINT64_MAX]
            /\ at = AtIdle /\ ct = CtIdle /\ syn = NoSync
            /\ blocks = {} /\ lost = {} /\ hist = NoHist /\ budget = LockCalls
            /\ pt = PtIdle /\ lk = LkIdle /\ lw = LwIdle /\ nfs = NfsIdle

LockNext == LockBegin \/ LockEnter \/ LockExit \/ LockReturn

SpecLocks == LockInit /\ [][LockNext]_vars

\* The place of a lock in the order the code follows, and in the order
\* "config lock, group lock, metaslab lock".
LockRank(l) ==
    IF l.kind \in ConfigKinds THEN 0 ELSE IF l.kind = "ms_lock" THEN 1 ELSE 2
LockRankGroupFirst(l) ==
    IF l.kind \in ConfigKinds THEN 0 ELSE IF l.kind = "mg_lock" THEN 1 ELSE 2

\* C22 (as stated): every thread holds its locks in the order config lock,
\* mg_lock, ms_lock: no thread has taken mg_lock while it held an ms_lock.
C22_GroupThenMetaslab ==
    \A t \in 1 .. LockThreads :
        \A i, j \in DOMAIN lk[t].held :
            i < j => LockRankGroupFirst(lk[t].held[i]) <= LockRankGroupFirst(lk[t].held[j])

\* C22 (amended): every thread holds its locks in the order config lock,
\* ms_lock, mg_lock: no thread has taken an ms_lock while it held mg_lock, no
\* thread has taken the config lock while it held a mutex, and no thread holds
\* two ms_locks, on every path through alloc, free, claim, sync, sync_done,
\* activate, passivate and preload.
C22_MetaslabThenGroup ==
    \A t \in 1 .. LockThreads :
        \A i, j \in DOMAIN lk[t].held :
            i < j =>
                /\ LockRank(lk[t].held[i]) <= LockRank(lk[t].held[j])
                /\ lk[t].held[i].kind # "ms_lock" \/ lk[t].held[j].kind # "ms_lock"

\* A thread in metaslab_alloc holds the config lock, an ms_lock and mg_lock,
\* taken in this order (metaslab_group_sort under metaslab_activate or
\* metaslab_passivate), while another thread waits for that mg_lock.
C22_Witness ==
    \E t, u \in 1 .. LockThreads :
        /\ lk[t].op = "alloc"
        /\ Len(lk[t].held) = 3
        /\ lk[t].held[1] = SCL_ALLOC
        /\ lk[t].held[2].kind = "ms_lock"
        /\ lk[t].held[3] = mg_lock
        /\ u # t
        /\ lk[u].rest # <<>>
        /\ Head(lk[u].rest) = [op |-> "enter", lock |-> mg_lock]

(***************************************************************************)
(* C25: the size-ordered tree and the offset-ordered free tree.            *)
(***************************************************************************)
\* C25: between the steps of the operations (ms_lock is free) ms_size_tree
\* holds exactly the segments of ms_tree, for every metaslab, and the
\* ASSERT3U on the two trees' node counts in the df, cf and ndf allocators
\* has never failed.
C25_SizeTreeSame ==
    /\ \A k \in DOMAIN ms : ms[k].ms_size_tree = Segs(ms[k].ms_tree)
    /\ "msop_alloc: ASSERT3U(avl_numnodes(&ms_tree->rt_root), ==, avl_numnodes(&ms_size_tree))"
           \notin fired

\* A loaded metaslab with free segments of two sizes, after an allocation
\* that is still in a caller's hands and while another metaslab that has
\* space on disk is not loaded (never loaded, or unloaded again).
C25_Witness ==
    /\ blocks # {}
    /\ \E k, j \in DOMAIN ms :
           /\ ms[k].ms_loaded
           /\ \E r, q \in ms[k].ms_size_tree : SegLen(r) < SegLen(q)
           /\ j # k
           /\ ~ms[j].ms_loaded
           /\ ms[j].ms_size_tree = {}

(***************************************************************************)
(* C29: when metaslab_sync_done unloads.  A settled pool with every        *)
(* metaslab unloaded; callers allocate and free single sectors, the        *)
(* preload task runs, and spa_sync goes through enough txgs for            *)
(* ms_access_txg + 1 to be synced.                                         *)
(***************************************************************************)
UnloadCalls == 3
UnloadTxgs == 11
UnloadLastTxg == TXG_INITIAL + UnloadTxgs - 1
UnloadFills == { {2^(MsShift - Ashift) - 2, 2^(MsShift - Ashift) - 1}, Sectors }

UnloadInit ==
    \E X \in [0 .. (MsCount - 1) -> UnloadFills] :
        LET s0 == Created(zfs_metaslab_ops)
            s1 == [s0 EXCEPT !.vd[0].vdev_ms_list = [t \in 0 .. (TXG_SIZE - 1) |-> {}]]
        IN  \E st \in {SettleAll(s1, 0, X, 0)} :
            /\ ms = st.ms /\ mg = st.mg /\ mc = st.mc /\ vd = st.vd
            /\ panic = st.panic /\ fired = {}
            /\ spa = [syncing_txg |-> TXG_INITIAL, sync_pass |-> 1, phase |-> "write",
                      dirty |-> FALSE, spa_freeze_txg |-> UINT64_MAX]
            /\ at = AtIdle /\ ct = CtIdle /\ syn = NoSync
            /\ blocks = {} /\ lost = {} /\ hist = NoHist /\ budget = UnloadCalls
            /\ pt = PtIdle /\ lk = LkIdle /\ lw = LwIdle /\ nfs = NfsIdle

\* metaslab_alloc of one copy of one sector.
UnloadAllocBegin ==
    /\ Running /\ at.pc = "idle" /\ budget > 0
    /\ \E txg \in OpTxgs :
          LET a == [AtIdle EXCEPT !.txg = txg, !.ndvas = 1, !.psize = 2^Ashift]
          IN  Commit(Cur,
                     IF mc.mc_rotor = NoGroup THEN [a EXCEPT !.ret = ENOSPC]
                     ELSE DvaStart(Cur, a, 0),
                     ct, syn, spa, blocks, lost, Hist, budget - 1)

\* vdev_sync_done is over and the next txg syncs.
UnloadTxgAdvance ==
    /\ Running /\ spa.phase = "done" /\ ~CleanLeft /\ S < UnloadLastTxg
    /\ LET s1 == metaslab_group_alloc_update(Cur, 0)
       IN  Commit(s1, at, ct, syn,
                  [syncing_txg |-> S + 1, sync_pass |-> 1, phase |-> "write",
                   dirty |-> FALSE,
                   spa_freeze_txg |-> spa.spa_freeze_txg],
                  blocks, lost, Hist, budget)

UnloadNext ==
    \/ UnloadAllocBegin \/ AllocGroup \/ AllocLocked \/ AllocWake \/ AllocLoaded
    \/ Free
    \/ PreloadBegin \/ PreloadWake \/ PreloadLoaded
    \/ WriteEnd \/ Sync \/ CondenseFinish \/ NextPass \/ SyncEnd \/ SyncDone
    \/ UnloadTxgAdvance

SpecUnload == UnloadInit /\ [][UnloadNext]_vars

\* The step is metaslab_sync_done(k, S).
IsSyncDone(k) ==
    /\ spa.phase = "done"
    /\ k[2] \in vd[k[1]].vdev_ms_list[Slot(TXG_CLEAN(S))]
    /\ k[2] \notin vd'[k[1]].vdev_ms_list[Slot(TXG_CLEAN(S))]

\* The step unloads metaslab k.
Unloads(k) == ms[k].ms_loaded /\ ~ms'[k].ms_loaded /\ ~ms'[k].ms_loading /\ panic' = ""

\* C29 (as stated): no metaslab_sync_done(t) unloads a metaslab from which
\* an allocation was made in a txg T with t <= T + metaslab_unload_delay.
C29_AllocKeepsLoaded ==
    [][\A k \in DOMAIN ms :
           Unloads(k) =>
               \A b \in blocks :
                   \A i \in 1 .. Len(b.dvas) :
                       DvaMs(Cur, b.dvas[i]) = k => S > b.birth + metaslab_unload_delay]_vars

\* C29 (amended): a metaslab is unloaded only by metaslab_sync_done(t) with
\* ms_access_txg < t; metaslab_sync_done(t) of a loaded metaslab with
\* ms_access_txg < t and no allocations pending in the txgs after t unloads
\* it; ms_access_txg is what the most recent allocation (its txg plus
\* metaslab_unload_delay) or preload (the syncing txg plus
\* metaslab_unload_delay plus 1) wrote, whether or not that is lower than
\* the value before.
C29_UnloadAfterDelay ==
    [][/\ \A k \in DOMAIN ms :
              /\ Unloads(k) => IsSyncDone(k) /\ ms[k].ms_access_txg < S
              /\ (/\ IsSyncDone(k) /\ panic' = ""
                  /\ ms[k].ms_loaded /\ ms[k].ms_access_txg < S)
                     => ~ms'[k].ms_loaded
              /\ (/\ IsSyncDone(k) /\ panic' = ""
                  /\ ms[k].ms_loaded /\ ms[k].ms_access_txg >= S)
                     => ms'[k].ms_loaded
       /\ \A b \in blocks' \ blocks :
              ms'[DvaMs(Cur, b.dvas[Len(b.dvas)])].ms_access_txg
                  = b.birth + metaslab_unload_delay
       /\ (pt.pc # "idle" /\ pt'.pc = "idle" /\ panic' = "")
              => ms'[pt.msp].ms_access_txg = S + metaslab_unload_delay + 1]_vars

\* metaslab_sync_done has just unloaded a metaslab that an allocation or a
\* preload had touched: the txg synced is past its ms_access_txg.
C29_Witness ==
    \E k \in DOMAIN ms :
        /\ hist.done[k] = S
        /\ ~ms[k].ms_loaded
        /\ ms[k].ms_access_txg >= TXG_INITIAL + metaslab_unload_delay
        /\ ms[k].ms_access_txg < S

(***************************************************************************)
(* The NFS auth cache (nfs_auth.c) of one export.  nfs.exi_cache is the    *)
(* hash chain, head first; nfs.refreshq_queue the list of                  *)
(* refreshq_exi_nodes, each the list of the entries queued for the export; *)
(* nfs.refreshq_dead_entries the dead list, head first.  A thread's step   *)
(* is what it does between two points where it takes a lock.  nfs.mem and  *)
(* nfs.freed_by record what nfsauth_free_node has done to an entry and     *)
(* nfs.used_freed who has dereferenced an entry after it was freed.        *)
(***************************************************************************)
Entries == 1 .. NfsEntries
Clients == 1 .. NfsClients

SeqSet(q) == { q[i] : i \in DOMAIN q }
Without(q, e) == SelectSeq(q, LAMBDA x : x # e)

\* A dereference of entry e by who.
Deref(n, who, e) ==
    IF n.mem[e] = "freed" THEN [n EXCEPT !.used_freed = @ \cup {<<who, e>>}] ELSE n

nfsauth_free_node(n, who, e) ==
    [Deref(n, who, e) EXCEPT !.mem[e] = "freed", !.freed_by[e] = Append(@, who)]

\* The entries some refreshq_auth_node points to: queued, or in the hands
\* of the refresh thread.
Queued(n) ==
    UNION { SeqSet(n.refreshq_queue[i]) : i \in DOMAIN n.refreshq_queue }
        \cup SeqSet(n.rt.ren)
        \cup (IF n.rt.pc \in {"auth", "retrieve", "dead"} THEN {n.rt.p} ELSE {})

NfsUnchanged ==
    UNCHANGED <<ms, mg, mc, vd, spa, at, ct, syn, panic, fired, blocks, lost, hist,
                budget, pt, lk, lw>>

(* nfsauth_cache_get *)

\* rw_enter(&exi->exi_cache_lock, RW_READER) and the search of the chain:
\* the client's entry is found, or it is not and the lock is dropped.
CacheGetBegin ==
    /\ nfs.fini = "no"
    /\ ~nfs.exi_cache_lock.writer
    /\ \E c \in Clients :
          /\ nfs.gt[c].pc = "idle"
          /\ \/ \E e \in SeqSet(nfs.exi_cache) :
                    nfs' = [nfs EXCEPT !.exi_cache_lock.readers = @ \cup {c},
                                       !.gt[c] = [pc |-> "hit", p |-> e]]
             \/ nfs' = [nfs EXCEPT !.gt[c] = [pc |-> "miss", p |-> NoEntry]]
    /\ NfsUnchanged

\* The cache hit under auth_lock: a fresh entry older than
\* NFSAUTH_CACHE_REFRESH becomes stale and will be queued.
CacheHit(n, c, old) ==
    LET e == n.gt[c].p
        n1 == Deref(n, "cache_get", e)
    IN  IF old /\ n1.auth_state[e] = "NFS_AUTH_FRESH"
        THEN [n1 EXCEPT !.auth_state[e] = "NFS_AUTH_STALE", !.gt[c].pc = "queue"]
        ELSE [n1 EXCEPT !.gt[c].pc = "read"]

CacheGetHit ==
    /\ \E c \in Clients :
          /\ nfs.gt[c].pc = "hit"
          /\ \E old \in BOOLEAN : nfs' = CacheHit(nfs, c, old)
    /\ NfsUnchanged

\* Under refreshq_lock: the refreshq_auth_node goes to the export's
\* refreshq_exi_node, which is created if the queue has none, unless the
\* refresh thread no longer accepts work.
CacheQueue(n, c) ==
    LET e == n.gt[c].p
        n1 == [n EXCEPT !.gt[c].pc = "read"]
    IN  IF n.refreshq_thread_state # "REFRESHQ_THREAD_RUNNING" THEN n1
        ELSE IF n.refreshq_queue = <<>>
        THEN [n1 EXCEPT !.refreshq_queue = << <<e>> >>]
        ELSE [n1 EXCEPT !.refreshq_queue[1] = Append(@, e)]

CacheGetQueue ==
    /\ \E c \in Clients :
          /\ nfs.gt[c].pc = "queue"
          /\ nfs' = CacheQueue(nfs, c)
    /\ NfsUnchanged

\* access = p->auth_access; p->auth_time = now; rw_exit.
CacheGetRead ==
    /\ \E c \in Clients :
          /\ nfs.gt[c].pc = "read"
          /\ nfs' = [Deref(nfs, "cache_get", nfs.gt[c].p) EXCEPT
                         !.exi_cache_lock.readers = @ \ {c},
                         !.gt[c] = [pc |-> "idle", p |-> NoEntry]]
    /\ NfsUnchanged

\* The miss: nfsauth_retrieve fails or kmem_cache_alloc returns NULL, or a
\* new entry is set up in state NFS_AUTH_FRESH.
CacheGetMiss ==
    /\ \E c \in Clients :
          /\ nfs.gt[c].pc = "miss"
          /\ \/ nfs' = [nfs EXCEPT !.gt[c] = [pc |-> "idle", p |-> NoEntry]]
             \/ \E e \in Entries :
                    /\ nfs.mem[e] = "unallocated"
                    /\ nfs' = [nfs EXCEPT !.mem[e] = "live",
                                          !.auth_state[e] = "NFS_AUTH_FRESH",
                                          !.gt[c] = [pc |-> "insert", p |-> e]]
    /\ NfsUnchanged

\* rw_enter(RW_WRITER); the entry goes to the head of the chain; rw_exit.
CacheGetInsert ==
    /\ ~nfs.exi_cache_lock.writer /\ nfs.exi_cache_lock.readers = {}
    /\ \E c \in Clients :
          /\ nfs.gt[c].pc = "insert"
          /\ nfs' = [nfs EXCEPT !.exi_cache = <<nfs.gt[c].p>> \o @,
                                !.gt[c] = [pc |-> "idle", p |-> NoEntry]]
    /\ NfsUnchanged

(* exi_cache_trim *)

TrimBegin ==
    /\ nfs.fini = "no"
    /\ nfs.tr.pc = "idle"
    /\ ~nfs.exi_cache_lock.writer /\ nfs.exi_cache_lock.readers = {}
    /\ nfs' = [nfs EXCEPT !.exi_cache_lock.writer = TRUE,
                          !.tr = [pc |-> "walk", todo |-> nfs.exi_cache, p |-> NoEntry]]
    /\ NfsUnchanged

\* An exi_cache_trim that frees every entry it finds unused.
TrimEntry_any(n, e) ==
    [nfsauth_free_node(n, "trim", e) EXCEPT !.exi_cache = Without(@, e)]

\* An unused entry under auth_lock: freed if it is fresh, else marked
\* invalid, to be put on the dead list.
TrimEntry(n, e) ==
    IF n.auth_state[e] # "NFS_AUTH_FRESH"
    THEN [n EXCEPT !.auth_state[e] = "NFS_AUTH_INVALID",
                   !.tr.pc = "dead", !.tr.p = e]
    ELSE [nfsauth_free_node(n, "trim", e) EXCEPT !.exi_cache = Without(@, e)]

\* One entry of the chain: used within NFSAUTH_CACHE_TRIM seconds and kept,
\* or not.
TrimWalk ==
    /\ nfs.tr.pc = "walk" /\ nfs.tr.todo # <<>>
    /\ LET e == Head(nfs.tr.todo)
           n1 == [Deref(nfs, "trim", e) EXCEPT !.tr.todo = Tail(@)]
       IN  \/ nfs' = n1
           \/ nfs' = TrimEntry(n1, e)
    /\ NfsUnchanged

\* Under refreshq_lock the invalid entry goes to the head of the dead list;
\* then it is unlinked from the chain.
TrimDead ==
    /\ nfs.tr.pc = "dead"
    /\ nfs' = [nfs EXCEPT !.refreshq_dead_entries = <<nfs.tr.p>> \o @,
                          !.exi_cache = Without(@, nfs.tr.p),
                          !.tr.pc = "walk", !.tr.p = NoEntry]
    /\ NfsUnchanged

TrimEnd ==
    /\ nfs.tr.pc = "walk" /\ nfs.tr.todo = <<>>
    /\ nfs' = [nfs EXCEPT !.exi_cache_lock.writer = FALSE,
                          !.tr = [pc |-> "idle", todo |-> <<>>, p |-> NoEntry]]
    /\ NfsUnchanged

(* nfsauth_refresh_thread *)

\* The top of the loop, under refreshq_lock: the thread halts, waits on
\* refreshq_cv, or takes the first refreshq_exi_node off the queue.
RefreshTop ==
    /\ nfs.rt.pc = "top"
    /\ nfs' = IF nfs.refreshq_thread_state # "REFRESHQ_THREAD_RUNNING"
              THEN [nfs EXCEPT !.refreshq_thread_state = "REFRESHQ_THREAD_HALTED",
                               !.rt.pc = "halted"]
              ELSE IF nfs.refreshq_queue = <<>>
              THEN [nfs EXCEPT !.rt.pc = "cv_wait"]
              ELSE [nfs EXCEPT !.refreshq_queue = Tail(@),
                               !.rt.pc = "ren", !.rt.ren = Head(nfs.refreshq_queue)]
    /\ NfsUnchanged

\* cv_broadcast(&refreshq_cv), by nfsauth_cache_get after it queued work and
\* by nfsauth_fini, ends the wait.
RefreshWake ==
    /\ nfs.rt.pc = "cv_wait"
    /\ nfs.refreshq_queue # <<>>
          \/ nfs.refreshq_thread_state # "REFRESHQ_THREAD_RUNNING"
    /\ nfs' = [nfs EXCEPT !.rt.pc = "top"]
    /\ NfsUnchanged

\* The next refreshq_auth_node of the node in hand; it is thrown away when
\* the thread has been asked to stop.
RefreshNext ==
    /\ nfs.rt.pc = "ren"
    /\ nfs' = IF nfs.rt.ren = <<>>
              THEN [nfs EXCEPT !.rt.pc = "top"]
              ELSE IF nfs.refreshq_thread_state # "REFRESHQ_THREAD_RUNNING"
              THEN [nfs EXCEPT !.rt.ren = Tail(@)]
              ELSE [nfs EXCEPT !.rt.ren = Tail(@), !.rt.pc = "auth",
                               !.rt.p = Head(nfs.rt.ren)]
    /\ NfsUnchanged

\* Under auth_lock: a stale entry is now being refreshed, an invalid one is
\* to be removed from the dead list, any other is left alone.
RefreshLock(n) ==
    LET e == n.rt.p
        n1 == Deref(n, "refresh", e)
    IN  IF n1.auth_state[e] = "NFS_AUTH_STALE"
        THEN [n1 EXCEPT !.auth_state[e] = "NFS_AUTH_REFRESHING", !.rt.pc = "retrieve"]
        ELSE IF n1.auth_state[e] = "NFS_AUTH_INVALID"
        THEN [n1 EXCEPT !.rt.pc = "dead"]
        ELSE [n1 EXCEPT !.rt.pc = "ren", !.rt.p = NoEntry]

RefreshAuth ==
    /\ nfs.rt.pc = "auth"
    /\ nfs' = RefreshLock(nfs)
    /\ NfsUnchanged

\* A refresh that ends in NFS_AUTH_FRESH whatever the state is.
RefreshDone_unchecked(n) ==
    LET e == n.rt.p
        n1 == Deref(n, "refresh", e)
    IN  [n1 EXCEPT !.auth_state[e] = "NFS_AUTH_FRESH",
                   !.rt.pc = "ren", !.rt.p = NoEntry]

\* nfsauth_retrieve has returned; under auth_lock the entry becomes fresh
\* unless it was invalidated meanwhile.
RefreshDone(n) ==
    LET e == n.rt.p
        n1 == Deref(n, "refresh", e)
    IN  IF n1.auth_state[e] = "NFS_AUTH_INVALID"
        THEN [n1 EXCEPT !.rt.pc = "dead"]
        ELSE [n1 EXCEPT !.auth_state[e] = "NFS_AUTH_FRESH",
                        !.rt.pc = "ren", !.rt.p = NoEntry]

RefreshRetrieved ==
    /\ nfs.rt.pc = "retrieve"
    /\ nfs' = RefreshDone(nfs)
    /\ NfsUnchanged

\* nfsauth_remove_dead_entry: under refreshq_lock the entry is looked for on
\* the dead list, by address, and unlinked and freed if it is there.
nfsauth_remove_dead_entry(n, dead) ==
    IF dead \in SeqSet(n.refreshq_dead_entries)
    THEN [nfsauth_free_node(n, "refresh", dead) EXCEPT
              !.refreshq_dead_entries = Without(@, dead)]
    ELSE n

RefreshRemoveDead ==
    /\ nfs.rt.pc = "dead"
    /\ nfs' = [nfsauth_remove_dead_entry(nfs, nfs.rt.p) EXCEPT
                   !.rt.pc = "ren", !.rt.p = NoEntry]
    /\ NfsUnchanged

(* nfsauth_fini *)

\* The module is unloaded once no request and no reclaim is at work on the
\* export.  The refresh thread is asked to stop; nfsauth_fini waits on
\* refreshq_cv until it has halted.
FiniBegin ==
    /\ nfs.fini = "no"
    /\ nfs.tr.pc = "idle"
    /\ \A c \in Clients : nfs.gt[c].pc = "idle"
    /\ nfs' = [nfs EXCEPT !.fini = "wait",
                          !.refreshq_thread_state =
                              IF @ = "REFRESHQ_THREAD_HALTED" THEN @
                              ELSE "REFRESHQ_THREAD_FINI_REQ"]
    /\ NfsUnchanged

RECURSIVE FreeAll(_, _)
FreeAll(n, q) ==
    IF q = <<>> THEN n ELSE FreeAll(nfsauth_free_node(n, "fini", Head(q)), Tail(q))

\* The queue is emptied and every dead entry is freed.
FiniEnd ==
    /\ nfs.fini = "wait"
    /\ nfs.refreshq_thread_state = "REFRESHQ_THREAD_HALTED"
    /\ nfs' = [FreeAll(nfs, nfs.refreshq_dead_entries) EXCEPT
                   !.refreshq_queue = <<>>, !.fini = "done"]
    /\ NfsUnchanged

NfsInit ==
        LET st == Created(zfs_metaslab_ops)
        IN  /\ ms = st.ms /\ mg = st.mg /\ mc = st.mc /\ vd = st.vd
            /\ panic = st.panic /\ fired = st.fired
            /\ spa = [syncing_txg |-> TXG_INITIAL, sync_pass |-> 1, phase |-> "write",
                     dirty |-> FALSE, spa_freeze_txg |-> UINT64_MAX]
            /\ at = AtIdle /\ ct = CtIdle /\ syn = NoSync
            /\ blocks = {} /\ lost = {} /\ hist = NoHist /\ budget = 0
            /\ pt = PtIdle /\ lk = LkIdle /\ lw = LwIdle /\ nfs = NfsIdle

NfsNext ==
    \/ CacheGetBegin \/ CacheGetHit \/ CacheGetQueue \/ CacheGetRead
    \/ CacheGetMiss \/ CacheGetInsert
    \/ TrimBegin \/ TrimWalk \/ TrimDead \/ TrimEnd
    \/ RefreshTop \/ RefreshWake \/ RefreshNext \/ RefreshAuth \/ RefreshRetrieved
    \/ RefreshRemoveDead
    \/ FiniBegin \/ FiniEnd

SpecNfs == NfsInit /\ [][NfsNext]_vars

NfsTransitions ==
    { <<"unallocated", "NFS_AUTH_FRESH">>,
      <<"NFS_AUTH_FRESH", "NFS_AUTH_STALE">>,
      <<"NFS_AUTH_STALE", "NFS_AUTH_REFRESHING">>,
      <<"NFS_AUTH_REFRESHING", "NFS_AUTH_FRESH">>,
      <<"NFS_AUTH_STALE", "NFS_AUTH_INVALID">>,
      <<"NFS_AUTH_REFRESHING", "NFS_AUTH_INVALID">> }

\* The thread that made a step of the cache: the step changed its position.
NfsBy(who) ==
    CASE who = "cache_get" -> nfs'.gt # nfs.gt
      [] who = "refresh" -> nfs'.rt # nfs.rt
      [] who = "trim" -> nfs'.tr # nfs.tr

\* C39: an entry whose auth_state is NFS_AUTH_INVALID never changes state
\* again, and every entry on refreshq_dead_entries is NFS_AUTH_INVALID; the
\* other changes of state are fresh to stale, by nfsauth_cache_get, stale to
\* refreshing and refreshing to fresh, by the refresh thread, and the
\* invalidation of an entry that is not fresh, by exi_cache_trim.
C39_InvalidIsFinal ==
    /\ [](\A e \in SeqSet(nfs.refreshq_dead_entries) :
              nfs.auth_state[e] = "NFS_AUTH_INVALID")
    /\ [][\A e \in Entries :
              LET old == nfs.auth_state[e]
                  new == nfs'.auth_state[e]
              IN  old # new =>
                      /\ old # "NFS_AUTH_INVALID"
                      /\ <<old, new>> \in NfsTransitions
                      /\ new = "NFS_AUTH_STALE" => NfsBy("cache_get")
                      /\ new = "NFS_AUTH_REFRESHING" => NfsBy("refresh")
                      /\ old = "NFS_AUTH_REFRESHING" /\ new = "NFS_AUTH_FRESH"
                             => NfsBy("refresh")
                      /\ new = "NFS_AUTH_INVALID" => NfsBy("trim")]_vars

\* The refresh thread has come back from nfsauth_retrieve with an entry
\* that exi_cache_trim invalidated and put on the dead list meanwhile.
C39_Witness ==
    /\ nfs.rt.pc = "retrieve"
    /\ nfs.auth_state[nfs.rt.p] = "NFS_AUTH_INVALID"
    /\ nfs.rt.p \in SeqSet(nfs.refreshq_dead_entries)

\* C40: no entry is freed twice and none is used after it was freed;
\* exi_cache_trim frees only fresh entries, which no refreshq_auth_node
\* points to, and every other unused entry is invalid on its way to the
\* dead list; an entry leaves the dead list when the refresh thread or
\* nfsauth_fini frees it, and nfsauth_fini leaves no invalid entry behind.
C40_FreedOnce ==
    /\ nfs.used_freed = {}
    /\ \A e \in Entries :
          /\ Len(nfs.freed_by[e]) <= 1
          /\ nfs.freed_by[e] = <<"trim">> => nfs.auth_state[e] = "NFS_AUTH_FRESH"
          /\ nfs.freed_by[e] \in {<<"refresh">>, <<"fini">>}
                 => nfs.auth_state[e] = "NFS_AUTH_INVALID"
          /\ nfs.mem[e] = "freed" =>
                 /\ e \notin Queued(nfs)
                 /\ e \notin SeqSet(nfs.exi_cache)
                 /\ nfs.fini # "done" => e \notin SeqSet(nfs.refreshq_dead_entries)
          /\ e \in Queued(nfs) => nfs.auth_state[e] # "NFS_AUTH_FRESH"
                                     \/ (nfs.rt.p = e /\ nfs.rt.pc = "auth")
          /\ nfs.auth_state[e] = "NFS_AUTH_INVALID" /\ nfs.mem[e] = "live" =>
                 \/ nfs.tr.pc = "dead" /\ nfs.tr.p = e
                 \/ e \in SeqSet(nfs.refreshq_dead_entries) /\ nfs.fini # "done"

\* exi_cache_trim has freed one entry and the refresh thread another.
C40_Witness ==
    \E e1, e2 \in Entries :
        /\ nfs.freed_by[e1] = <<"trim">>
        /\ nfs.freed_by[e2] = <<"refresh">>

\* C31: ms_deferspace is the bytes held in the metaslab's two defer trees,
\* it is at least 0 and at most ms_size, the ASSERT3S checks of
\* metaslab_sync_done never fail, and a metaslab_fini of a metaslab whose
\* defer trees are empty finds ms_deferspace 0.
C31_DeferSpace ==
    /\ fired \cap {"metaslab_sync_done: ASSERT3S(ms_deferspace, >=, 0)",
                   "metaslab_sync_done: ASSERT3S(ms_deferspace, <=, ms_size)"} = {}
    /\ \A k \in MsKeys :
          /\ ms[k].ms_deferspace =
                 range_tree_space(ms[k].ms_defertree[0])
                     + range_tree_space(ms[k].ms_defertree[1])
          /\ 0 <= ms[k].ms_deferspace /\ ms[k].ms_deferspace <= ms[k].ms_size
          /\ (\A t \in 0 .. (TXG_DEFER_SIZE - 1) : ms[k].ms_defertree[t] = {})
                 => "metaslab_fini: ASSERT0(ms_deferspace)"
                        \notin metaslab_fini(Cur, k).fired

\* metaslab_sync_done has just returned the last deferred range of a
\* metaslab: its defer ring held space and has drained.
C31_Witness ==
    \E f \in hist.back :
        LET k == DvaMs(Cur, f.dva)
        IN  /\ hist.done[k] = S
            /\ ms[k].ms_deferspace = 0
            /\ \A t \in 0 .. (TXG_DEFER_SIZE - 1) : ms[k].ms_defertree[t] = {}

(***************************************************************************)
(* The rotor walk of metaslab_alloc_dva in a pool of WalkGroups top-level  *)
(* vdevs whose groups are activated and passivated between allocations     *)
(* (both take SCL_ALLOC as writer, metaslab_alloc as reader).  The pool    *)
(* was imported: each vdev is empty, full, or full but for two sectors of  *)
(* its first metaslab, which is less than one percent of it; the first     *)
(* vdev is empty and the last one is empty or full.                        *)
(***************************************************************************)
WalkMsCount == 4
WalkMsShift == 7
WalkCopies == 2
WalkCalls == 1
WalkIds == 0 .. (WalkMsCount - 1)
WalkVdevs == 0 .. (WalkGroups - 1)
WalkSizes == {2^Ashift, 2 * 2^Ashift}
WalkFills == {"free", "full", "tight"}
WalkFree(f, i) ==
    IF f = "free" THEN 0 .. (2^(WalkMsShift - Ashift) - 1)
    ELSE IF f = "tight" /\ i = 0 THEN {0, 1} ELSE {}

\* vdev_metaslab_init of vdev v: metaslab_init of each metaslab, whose space
\* map is found as the fill f left it (the fold gives the one resulting
\* state as a singleton set).
RECURSIVE WalkBuild(_, _, _, _)
WalkBuild(st, v, f, i) ==
    IF i = WalkMsCount THEN {st}
    ELSE LET k == <<v, i>>
             free == UNION { Range(st.ms[k].ms_start + x * 2^Ashift, 2^Ashift) :
                                 x \in WalkFree(f, i) }
         IN  UNION { WalkBuild(s, v, f, i + 1) :
                         s \in {Settle(metaslab_init(st, k), k, free)} }

RECURSIVE WalkBuildAll(_, _, _)
WalkBuildAll(st, F, v) ==
    IF v = WalkGroups THEN {st}
    ELSE UNION { WalkBuildAll(s, F, v + 1) : s \in WalkBuild(st, v, F[v], 0) }

WalkBuilt(F) ==
    LET st0 == [ms |-> [k \in WalkVdevs \X WalkIds |->
                           [NewMetaslab(k[2], zfs_metaslab_ops) EXCEPT
                                !.ms_start = k[2] * 2^WalkMsShift,
                                !.ms_size = 2^WalkMsShift]],
                mg |-> [v \in WalkVdevs |->
                           [NewGroup EXCEPT !.mg_tree = [i \in 1 .. WalkMsCount |-> i - 1]]],
                mc |-> NewClass,
                vd |-> [v \in WalkVdevs |->
                           [NewVdev EXCEPT !.vdev_ms_shift = WalkMsShift,
                                           !.vdev_ms_count = WalkMsCount,
                                           !.vdev_asize = WalkMsCount * 2^WalkMsShift]],
                panic |-> "", fired |-> {}, spa_freeze_txg |-> UINT64_MAX]
    IN  { [s1 EXCEPT !.vd = [v \in WalkVdevs |->
                                [s1.vd[v] EXCEPT !.vdev_ms_list =
                                     [t \in 0 .. (TXG_SIZE - 1) |-> {}]]]] :
              s1 \in WalkBuildAll(st0, F, 0) }

\* What hist keeps of the last metaslab_alloc: its hint and its size, and
\* the groups that were active and those that were allocatable during it.
WalkHist ==
    [freed |-> {}, back |-> {}, same |-> {}, done |-> [k \in MsKeys |-> 0],
     condensed |-> NoMs, hint |-> <<>>, avoid |-> FALSE, psize |-> 0,
     active |-> {}, allocatable |-> {}]

WalkInit ==
    \E F \in [WalkVdevs -> WalkFills] :
        /\ F[0] = "free" /\ F[WalkGroups - 1] # "tight"
        /\ \E st \in WalkBuilt(F) :
              /\ ms = st.ms /\ mg = st.mg /\ mc = st.mc /\ vd = st.vd
              /\ panic = st.panic /\ fired = {}
              /\ spa = [syncing_txg |-> TXG_INITIAL, sync_pass |-> 1, phase |-> "write",
                        dirty |-> FALSE, spa_freeze_txg |-> UINT64_MAX]
              /\ at = AtIdle /\ ct = CtIdle
              /\ syn = [v \in WalkVdevs |-> NoOffset]
              /\ blocks = {} /\ lost = {} /\ hist = WalkHist /\ budget = WalkCalls
              /\ pt = PtIdle /\ lk = LkIdle /\ lw = LwIdle /\ nfs = NfsIdle

\* metaslab_alloc(spa, mc, psize, bp, ndvas, txg, hintbp, flags): hintbp is
\* NULL, or all its DVAs are on one vdev, which is of this class, or the log
\* device, or has been removed.
WalkBegin ==
    /\ Running /\ at.pc = "idle" /\ budget > 0
    /\ \E ndvas \in 1 .. WalkCopies, psize \in WalkSizes,
          hv \in {NoGroup} \cup (0 .. (WalkGroups + 1)), avoid \in BOOLEAN :
          /\ hv = NoGroup => ~avoid
          /\ LET a == [AtIdle EXCEPT !.txg = TXG_INITIAL, !.ndvas = ndvas,
                                     !.psize = psize, !.avoid = avoid,
                                     !.hint = IF hv = NoGroup THEN <<>>
                                              ELSE [i \in 1 .. ndvas |-> hv]]
             IN  Commit(Cur,
                        IF mc.mc_rotor = NoGroup THEN [AtIdle EXCEPT !.ret = ENOSPC]
                        ELSE DvaStart(Cur, a, 0),
                        ct, syn, spa, blocks, lost,
                        [Hist EXCEPT !.hint = a.hint, !.avoid = avoid, !.psize = psize,
                                     !.active = { g \in DOMAIN mg :
                                                      mg[g].mg_activation_count = 1 },
                                     !.allocatable =
                                         { g \in DOMAIN mg :
                                               metaslab_group_allocatable(Cur, g) }],
                        budget - 1)

\* metaslab_activate's metaslab_load has returned 0.
WalkLoaded ==
    /\ Running /\ at.pc = "loading"
    /\ \E r \in AllocLoadedStep(Cur, at, 0) : AllocStep(r)

WalkNext ==
    \/ GroupActivate \/ GroupPassivate
    \/ WalkBegin \/ AllocGroup \/ AllocLocked \/ WalkLoaded \/ AllocUndo

SpecWalk == WalkInit /\ [][WalkNext]_vars

\* The groups met when following mg_next from mc_rotor.
OnRotor ==
    LET walk == Walk(mc.mc_rotor, Cardinality(DOMAIN mg) + 1)
    IN  { walk[i] : i \in 1 .. Len(walk) }

\* C32: no group's mg_activation_count exceeds 1, and a group is linked
\* into the rotor iff its count is 1; metaslab_group_activate of a group
\* whose count is negative changes the count and nothing else; and every
\* group the rotor walk of metaslab_alloc_dva visits has count 1 (its ASSERT
\* never fails).
C32_ActiveIffLinked ==
    /\ [](\A v \in DOMAIN mg :
              /\ mg[v].mg_activation_count <= 1
              /\ (v \in OnRotor) <=> (mg[v].mg_activation_count = 1)
              /\ (mg[v].mg_next # NoGroup) <=> (mg[v].mg_activation_count = 1))
    /\ [](/\ "metaslab_alloc_dva: ASSERT(mg->mg_activation_count == 1)" \notin fired
          /\ at.pc # "idle" /\ at.mg # NoGroup => mg[at.mg].mg_activation_count = 1)
    /\ [][\A v \in DOMAIN mg :
              mg[v].mg_activation_count < 0
                  /\ mg'[v].mg_activation_count = mg[v].mg_activation_count + 1
              => /\ mg' = [mg EXCEPT ![v].mg_activation_count = @ + 1]
                 /\ mc' = mc]_vars

\* The walk is at a group of a rotor of two while the third group has been
\* passivated without ever having been active.
C32_Witness ==
    /\ at.pc = "group"
    /\ Cardinality(OnRotor) = 2
    /\ \E v \in DOMAIN mg : mg[v].mg_activation_count < 0 /\ mg[v].mg_aliquot = 0

\* metaslab_alloc has returned a block.
WalkDone == at.pc = "idle" /\ at.ret = 0 /\ blocks # {}

\* The metaslab has asize contiguous free bytes at a sector boundary, in
\* core or, if it is not loaded, by its space map.
WalkRoom(k, asize) ==
    LET free == IF ms[k].ms_loaded THEN ms[k].ms_tree ELSE FreshLoad(k).rt
    IN  \E x \in 0 .. (ms[k].ms_size \div 2^Ashift - 1) :
            Range(ms[k].ms_start + x * 2^Ashift, asize) \subseteq free

\* The groups that were active during the call and still have room for one
\* more copy.
WalkAble ==
    { g \in hist.active :
          \E i \in 0 .. (vd[g].vdev_ms_count - 1) :
              WalkRoom(<<g, i>>, vdev_psize_to_asize(vd[g], hist.psize)) }

\* Those of them the walk does not pass over for want of free capacity.
WalkAllocatable ==
    { g \in WalkAble : hist.psize <= SPA_GANGBLOCKSIZE \/ g \in hist.allocatable }

ConsecutiveApart ==
    \A b \in blocks : \A i \in 2 .. Len(b.dvas) : b.dvas[i].vdev # b.dvas[i - 1].vdev

WalkStart(a, d) ==
    LET hv == a.hint[d + 1]
        chosen == IF a.hint = <<>>
                  THEN IF d = 0 THEN mc'.mc_rotor ELSE mg'[a.dva[d].vdev].mg_next
                  ELSE IF hv \in DOMAIN mg /\ a.avoid /\ mg'[hv].mg_next # NoGroup
                  THEN mg'[hv].mg_next
                  ELSE hv
    IN  IF chosen \in DOMAIN mg /\ mg'[chosen].mg_activation_count = 1
        THEN chosen ELSE mc'.mc_rotor

CursorInit ==
        LET st == Created("cf")
        IN  /\ ms = st.ms /\ mg = st.mg /\ mc = st.mc /\ vd = st.vd
            /\ panic = st.panic /\ fired = st.fired
            /\ spa = [syncing_txg |-> TXG_INITIAL, sync_pass |-> 1, phase |-> "write",
                     dirty |-> FALSE, spa_freeze_txg |-> UINT64_MAX]
            /\ at = AtIdle /\ ct = CtIdle /\ syn = NoSync
            /\ blocks = {} /\ lost = {} /\ hist = NoHist /\ budget = MaxOps /\ pt = PtIdle /\ lk = LkIdle /\ lw = LwIdle /\ nfs = NfsIdle

SpecCursor == CursorInit /\ [][Next]_vars

\* The range msop_alloc would return for a request of size bytes lies inside
\* one segment of the free tree of metaslab k.
FromFree(k, size) ==
    \A r \in msop_alloc(ms[k], size) :
        r.start = NoOffset
        \/ \E rs \in Segs(ms[k].ms_tree) :
              rs.rs_start <= r.start /\ r.start + size <= rs.rs_end

\* C33: when metaslab_group_alloc is about to call metaslab_block_alloc on
\* the active, loaded metaslab it has selected, the offset the strategy
\* returns is -1 or the start of a range lying wholly inside one segment of
\* the free tree, and metaslab_block_alloc never removes space that is not
\* free; the cursor fit's saved cursor pair included, across claims, frees
\* and unload/reload.
C33_AllocFromFree ==
    /\ panic # "range_tree_remove(ms_tree): segment not in tree"
    /\ (Running /\ at.pc = "lock" /\ ms[at.msp].ms_loaded /\ ~ms[at.msp].ms_condensing
           /\ WeightBits(ms[at.msp].ms_weight) # 0)
          => FromFree(at.msp, at.asize)

(***************************************************************************)
(* C34: when metaslab_sync condenses.  A step of Sync that leaves syn.msp  *)
(* set has entered metaslab_condense; one that takes a metaslab with       *)
(* something to write off the txg's list has appended to the space map.    *)
(***************************************************************************)
\* The metaslab as metaslab_sync sees it at its test: the space map is open.
AtSyncTest(k) ==
    [ms[k] EXCEPT !.ms_sm = IF @.open THEN @ ELSE space_map_open]

SyncDirty(k) ==
    range_tree_space(ms[k].ms_alloctree[Slot(S)]) # 0
    \/ range_tree_space(ms[k].ms_freetree[Slot(S)]) # 0

LargestSectors(msp, ashift) ==
    IF msp.ms_tree = {} THEN 0
    ELSE LET rs == CHOOSE r \in Segs(msp.ms_tree) :
                       \A q \in Segs(msp.ms_tree) : SegLen(q) <= SegLen(r)
         IN  SegLen(rs) \div 2^ashift

\* The condition as stated: the largest segment alone, in runs of at most
\* SM_RUN_MAX sectors rounded up, is shorter than the space map, and the
\* space map is longer than condense_pct percent of its minimal form.
StatedCondense(msp, ashift) ==
    LET sectors == LargestSectors(msp, ashift)
        len == space_map_length(msp.ms_sm)
    IN  /\ 8 * ((sectors + SM_RUN_MAX - 1) \div SM_RUN_MAX) < len
        /\ 100 * len > zfs_condense_pct * 8 * avl_numnodes(msp.ms_tree)

\* The condition with the comparisons and the divisions of the code: true
\* for an empty free tree, and otherwise segsz <= length and length >= the
\* truncated percentage, segsz being 8 * (sectors / MIN(sectors, SM_RUN_MAX)).
CodedCondense(msp, ashift) ==
    LET sectors == LargestSectors(msp, ashift)
        len == space_map_length(msp.ms_sm)
    IN  \/ msp.ms_tree = {}
        \/ /\ 8 * (sectors \div MIN(sectors, SM_RUN_MAX)) <= len
           /\ len >= (zfs_condense_pct * 8 * avl_numnodes(msp.ms_tree)) \div 100

\* Sync has run metaslab_sync on k, which had something to write.
SyncRan(k) ==
    /\ Running /\ panic' = "" /\ spa.phase = "vsync" /\ syn.msp = NoMs
    /\ k[2] \in vd[k[1]].vdev_ms_list[Slot(S)] /\ SyncDirty(k)
    /\ \/ syn'.msp = k
       \/ syn'.msp = NoMs /\ k[2] \notin vd'[k[1]].vdev_ms_list[Slot(S)]

\* The space map after the append of alloc[t] and free[t].
Appended(k) ==
    LET ashift == vd[k[1]].vdev_ashift
    IN  AtSyncTest(k).ms_sm.log
        \o TreeEntries("A", ms[k].ms_alloctree[Slot(S)], ashift)
        \o TreeEntries("F", ms[k].ms_freetree[Slot(S)], ashift)

\* metaslab_sync condenses iff the metaslab is loaded, the pass is 1 and the
\* stated condition holds; otherwise it appends.
C34_StatedStep ==
    \A k \in MsKeys :
        SyncRan(k) =>
            LET should == ms[k].ms_loaded /\ spa.sync_pass = 1
                          /\ StatedCondense(AtSyncTest(k), vd[k[1]].vdev_ashift)
            IN  /\ (syn'.msp = k) <=> should
                /\ ~should => ms'[k].ms_sm.log = Appended(k)

C34_CodedStep ==
    \A k \in MsKeys :
        SyncRan(k) =>
            LET should == ms[k].ms_loaded /\ spa.sync_pass = 1
                          /\ CodedCondense(AtSyncTest(k), vd[k[1]].vdev_ashift)
            IN  /\ (syn'.msp = k) <=> should
                /\ ~should => ms'[k].ms_sm.log = Appended(k)

FreedIn(k, t) ==
    UNION { Bytes(f.dva) : f \in { g \in hist.freed : DvaMs(Cur, g.dva) = k /\ g.txg = t } }

\* metaslab_sync(S) has returned for k and nothing has dirtied k in S since.
SyncReturned(k) ==
    /\ spa.phase \in {"write", "vsync"} /\ syn.msp # k
    /\ k[2] \in vd[k[1]].vdev_ms_list[Slot(TXG_CLEAN(S))]
    /\ k[2] \notin vd[k[1]].vdev_ms_list[Slot(S)]

\* metaslab_sync(S) is still to run for k in pass 1 and has not run before.
FirstSyncDue(k) ==
    /\ spa.phase \in {"write", "vsync"} /\ spa.sync_pass = 1 /\ syn.msp # k
    /\ k[2] \in vd[k[1]].vdev_ms_list[Slot(S)]
    /\ k[2] \notin vd[k[1]].vdev_ms_list[Slot(TXG_CLEAN(S))]

\* C35: on pass 1 the freed tree is empty before metaslab_sync swaps it with
\* free[t] (the ASSERT0s at the end of metaslab_sync never fire and the
\* later passes' range_tree_add into the freed tree never overlaps); after
\* metaslab_sync has returned, alloc[t & 3] and free[t & 3] are empty and the
\* freed tree holds exactly the ranges freed in txg t so far; a free issued
\* for a still-open txg lies in that txg's own slot, never in the freed tree's.
C35_FreedTree ==
    /\ fired \cap {"metaslab_sync: ASSERT0(range_tree_space(ms_alloctree[txg & TXG_MASK]))",
                   "metaslab_sync: ASSERT0(range_tree_space(ms_freetree[txg & TXG_MASK]))"} = {}
    /\ panic # "metaslab_sync: range_tree_add(freed_tree): segment overlaps"
    /\ Running =>
        \A k \in MsKeys :
           /\ FirstSyncDue(k) => ms[k].ms_freetree[Slot(TXG_CLEAN(S))] = {}
           /\ SyncReturned(k) =>
                 /\ ms[k].ms_alloctree[Slot(S)] = {}
                 /\ ms[k].ms_freetree[Slot(S)] = {}
                 /\ ms[k].ms_freetree[Slot(TXG_CLEAN(S))] = FreedIn(k, S)
           /\ \A f \in hist.freed :
                 (f.txg > S /\ DvaMs(Cur, f.dva) = k) =>
                     /\ Slot(f.txg) # Slot(TXG_CLEAN(S))
                     /\ Bytes(f.dva) \subseteq ms[k].ms_freetree[Slot(f.txg)]
                     /\ Bytes(f.dva) \cap ms[k].ms_freetree[Slot(TXG_CLEAN(S))] = {}

\* In pass 2 metaslab_sync has returned for a metaslab whose freed tree
\* holds a range freed in the syncing txg.
C35_Witness ==
    /\ Running /\ spa.sync_pass = 2 /\ fired = {}
    /\ \E k \in MsKeys :
          /\ SyncReturned(k)
          /\ ms[k].ms_freetree[Slot(TXG_CLEAN(S))] # {}
          /\ FreedIn(k, S) # {}

(***************************************************************************)
(* C37: the lock sequences of the operations in a class of two groups.     *)
(* The paths are those of SpecLocks, taken in either group; metaslab_alloc *)
(* also walks from the first group to the second, and                      *)
(* metaslab_sync_reassess runs in the sync thread.                         *)
(***************************************************************************)
DeadlockGroups == 2

\* The lock sequence path, run on group g: its mg_lock and its metaslabs.
InGroup(path, g) ==
    [i \in DOMAIN path |->
        [op |-> path[i].op,
         lock |-> IF path[i].lock.kind = "mg_lock" THEN [kind |-> "mg_lock", id |-> g]
                  ELSE IF path[i].lock.kind = "ms_lock"
                  THEN [kind |-> "ms_lock", id |-> path[i].lock.id + g * LockMsCount]
                  ELSE path[i].lock]]

InGroups(paths) ==
    UNION { { InGroup(path, g) : path \in paths } : g \in 0 .. (DeadlockGroups - 1) }

\* metaslab_group_alloc_update: mg_lock around the update of the flag.
metaslab_group_alloc_update_locks == mutex_enter(mg_lock) \o mutex_exit(mg_lock)

\* metaslab_sync_reassess: metaslab_group_alloc_update, then
\* metaslab_group_preload.
metaslab_sync_reassess_locks ==
    Cat({metaslab_group_alloc_update_locks}, metaslab_group_preload_locks)

\* metaslab_alloc: each metaslab_alloc_dva tries one group, or the first and
\* then the second; when the second copy finds no space the first is freed.
metaslab_alloc_walk_locks ==
    LET one == metaslab_group_alloc_locks(0)
        first == { InGroup(path, 0) : path \in one }
        second == { InGroup(path, 1) : path \in one }
        undo == UNION { Cat({ InGroup(path, 0) : path \in GroupAllocBreak(k) },
                            Cat({InGroup(GroupAllocSelect, 1)},
                                { InGroup(path, 0) : path \in metaslab_free_dva_locks(k) }))
                        : k \in 0 .. (LockMsCount - 1) }
    IN  Cat({spa_config_enter(SCL_ALLOC)},
            Cat(first \cup second \cup Cat(first, second) \cup undo,
                {spa_config_exit(SCL_ALLOC)}))

DeadlockOps == (LockOps \ {"group_preload"}) \cup {"reassess"}

DeadlockPaths(op) ==
    CASE op = "alloc" -> metaslab_alloc_walk_locks
      [] op = "reassess" -> InGroups(metaslab_sync_reassess_locks)
      [] OTHER -> InGroups(LockPaths(op))

DeadlockBegin ==
    /\ budget > 0
    /\ \E t \in 1 .. LockThreads :
           /\ lk[t].op = "idle"
           /\ \E op \in DeadlockOps :
                  \E path \in DeadlockPaths(op) :
                      lk' = [lk EXCEPT ![t] = [op |-> op, rest |-> path, held |-> <<>>]]
    /\ budget' = budget - 1
    /\ LockUnchanged

DeadlockNext == DeadlockBegin \/ LockEnter \/ LockExit \/ LockReturn

SpecDeadlock == LockInit /\ [][DeadlockNext]_vars

\* Thread t is at a mutex_enter of a mutex that thread u holds.
WaitsFor(t, u) ==
    /\ lk[t].rest # <<>>
    /\ Head(lk[t].rest).op = "enter"
    /\ Head(lk[t].rest).lock.kind \notin ConfigKinds
    /\ u \in LockHolders(Head(lk[t].rest).lock)

HeldKind(t, kind) == { i \in DOMAIN lk[t].held : lk[t].held[i].kind = kind }

\* C37: no thread is at the mutex_enter of an ms_lock while it holds an
\* mg_lock, no thread holds two ms_locks or two mg_locks, and there is no
\* set of threads each waiting for a mutex held by another of the set (or
\* by itself), for every interleaving of alloc, free, claim, sync,
\* sync_done, preload and reassess.
C37_NoDeadlock ==
    /\ \A t \in 1 .. LockThreads :
          /\ (lk[t].rest # <<>> /\ Head(lk[t].rest).op = "enter"
                /\ Head(lk[t].rest).lock.kind = "ms_lock") => HeldKind(t, "mg_lock") = {}
          /\ Cardinality(HeldKind(t, "ms_lock")) <= 1
          /\ Cardinality(HeldKind(t, "mg_lock")) <= 1
    /\ ~\E C \in SUBSET (1 .. LockThreads) :
          /\ C # {}
          /\ \A t \in C : \E u \in C : WaitsFor(t, u)

\* An allocator is at the mutex_enter of an ms_lock of the second group,
\* which is held by a thread that holds an mg_lock as well (it is inside
\* metaslab_group_sort).
C37_Witness ==
    \E t, u \in 1 .. LockThreads :
        /\ t # u
        /\ lk[t].op = "alloc" /\ WaitsFor(t, u)
        /\ Head(lk[t].rest).lock.kind = "ms_lock"
        /\ Head(lk[t].rest).lock.id >= LockMsCount
        /\ HeldKind(u, "mg_lock") # {} /\ HeldKind(u, "ms_lock") # {}

(***************************************************************************)
(* C38: who loads a metaslab.  The pools of WaitInit, opened with          *)
(* metaslab_debug_load clear or set: when it is set metaslab_init has      *)
(* loaded every metaslab that has a space map before any other thread of   *)
(* the pool runs.  Allocators, a claimer, a preload task and               *)
(* metaslab_sync_done, which unloads, run after that.                      *)
(***************************************************************************)
\* The end of metaslab_init: the load it makes when metaslab_debug_load is
\* set and the metaslab has a space map.
metaslab_init_load(st, k, metaslab_debug_load) ==
    IF metaslab_debug_load /\ st.ms[k].ms_sm.open
    THEN LET s1 == LoadFinish(LoadStart(st, k), k, 0)
         IN  IF s1.ms[k].ms_loaded THEN s1
             ELSE Fail(s1, "metaslab_init: VERIFY0(metaslab_load(msp))")
    ELSE st

RECURSIVE InitLoadAll(_, _, _, _)
InitLoadAll(st, v, i, metaslab_debug_load) ==
    IF i = MsCount THEN st
    ELSE InitLoadAll(metaslab_init_load(st, <<v, i>>, metaslab_debug_load),
                     v, i + 1, metaslab_debug_load)

DebugLoadInit ==
    \E X \in [0 .. (MsCount - 1) -> WaitFills], metaslab_debug_load \in BOOLEAN :
        LET s0 == Created(zfs_metaslab_ops)
            s1 == [s0 EXCEPT !.vd[0].vdev_ms_list =
                       [t \in 0 .. (TXG_SIZE - 1) |->
                           IF t = Slot(TXG_CLEAN(TXG_INITIAL)) THEN 0 .. (MsCount - 1)
                           ELSE {}]]
        IN  \E st \in {InitLoadAll(SettleAll(s1, 0, X, 0), 0, 0, metaslab_debug_load)} :
            /\ ms = st.ms /\ mg = st.mg /\ mc = st.mc /\ vd = st.vd
            /\ panic = st.panic /\ fired = st.fired
            /\ spa = [syncing_txg |-> TXG_INITIAL, sync_pass |-> 1, phase |-> "done",
                      dirty |-> FALSE, spa_freeze_txg |-> UINT64_MAX]
            /\ at = AtIdle /\ ct = CtIdle /\ syn = NoSync
            /\ blocks = {} /\ lost = {}
            /\ hist = [debug_load |-> metaslab_debug_load] @@ NoHist
            /\ budget = WaitCalls
            /\ pt = PtIdle /\ lk = LkIdle /\ lw = LwIdle /\ nfs = NfsIdle

SpecDebugLoad == DebugLoadInit /\ [][LoadsNext]_vars

\* The threads that are inside metaslab_load of metaslab k, in space_map_load.
Loaders(k) ==
    (IF at.pc = "loading" /\ at.msp = k THEN {"alloc"} ELSE {})
    \cup (IF ct.pc = "loading" /\ ct.msp = k THEN {"claim"} ELSE {})
    \cup (IF pt.pc = "loading" /\ pt.msp = k THEN {"preload"} ELSE {})

\* C38: the ASSERTs at the top of metaslab_load never fire; ms_loaded and
\* ms_loading are never both true; ms_loading is set exactly while one
\* thread is inside metaslab_load of the metaslab, and never two, whether
\* metaslab_init loaded the metaslabs (metaslab_debug_load) or not and
\* however allocators, preload tasks, metaslab_claim and metaslab_sync_done
\* interleave.
C38_LoadOnce ==
    /\ fired \cap {"metaslab_load: ASSERT(!msp->ms_loaded)",
                   "metaslab_load: ASSERT(!msp->ms_loading)"} = {}
    /\ Running =>
         \A k \in MsKeys :
            /\ ~(ms[k].ms_loaded /\ ms[k].ms_loading)
            /\ Cardinality(Loaders(k)) <= 1
            /\ ms[k].ms_loading <=> Loaders(k) # {}

\* In a pool whose metaslabs metaslab_init loaded, one has been unloaded by
\* metaslab_sync_done and is being loaded again by one thread while another
\* waits in metaslab_load_wait for it.
C38_Witness ==
    /\ Running /\ hist.debug_load
    /\ \E k \in MsKeys :
          /\ ms[k].ms_loading
          /\ \/ at.pc = "wait" /\ at.msp = k
             \/ ct.pc = "wait" /\ ct.msp = k
             \/ pt.pc = "wait" /\ pt.msp = k

====
